---- MODULE Spec2Model ----
(***************************************************************************)
(* Model of the footprint pipeline of backend/: the domain model           *)
(* (models.py), the Altium ASCII generator (generator.py), the extraction  *)
(* normalizer (extraction.py) and the verification pass (verification.py,  *)
(* main.py).                                                               *)
(*                                                                         *)
(* Numbers.  Lengths and angles are Python floats; here a length is an     *)
(* integer count of 0.0001 mm (and an angle of 0.0001 degree), so that     *)
(* the three-decimal formatting of the generator is a real rounding.  A    *)
(* formatted value is the integer count of 0.001 units it prints.          *)
(* Confidences are integer percents (1.0 = 100).                           *)
(*                                                                         *)
(* Optional[T] is the empty sequence (None) or a one-element sequence.     *)
(*                                                                         *)
(* The text written to the StringIO is a sequence of lines; a line is a    *)
(* record [k, f, s, n]: key, format, string part and numeric part.         *)
(***************************************************************************)
EXTENDS Integers, Sequences, FiniteSets, TLC

VARIABLES footprint, record_id, self, call, output, pc, idx, results, budget,
          phase, response, attempt, made, raised, norm,
          result, vcall, suspicious, verification, returned, vraised, calls, received,
          api_key,
          jobs, reply, raw_name, safe_name

genVars == <<footprint, record_id, self, call, output, pc, idx, results, budget>>
modelVars == <<phase, response, attempt, made, raised, norm>>
verifyVars ==
    <<result, vcall, suspicious, verification, returned, vraised, calls, received, api_key>>
apiVars == <<jobs, reply, raw_name, safe_name>>

(***************************************************************************)
(* Bounds                                                                  *)
(***************************************************************************)
MaxPads == 2
MaxVias == 2
MaxEmissions == 2
MaxInstances == 1
MaxRawPads == 2
MaxRawVias == 1
MaxExtractedPads == 8
MaxPitchPads == 3
MaxNameLen == 3
MaxImages == 2

(***************************************************************************)
(* models.py: enums and optional values                                    *)
(***************************************************************************)
None == <<>>
Some(v) == <<v>>
IsNone(o) == o = <<>>
Get(o) == o[1]

SMD == "smd"
THROUGH_HOLE == "th"
DRILL_TYPE_ROUND == "round"
DRILL_TYPE_SLOT == "slot"
PadShapes == {"round", "rectangular", "rounded_rectangle", "oval"}

(* Python truthiness of the values the generator tests with `if` / `and`.  *)
(* A pydantic model instance is always truthy; an Optional[float] is       *)
(* truthy when it is not None and not 0.0; a str or list when not empty.   *)
TruthyModel(o) == ~IsNone(o)
TruthyFloat(o) == ~IsNone(o) /\ Get(o) # 0
TruthyStr(s) == s # ""
TruthyList(l) == Len(l) > 0

(***************************************************************************)
(* generator.py: constants                                                 *)
(***************************************************************************)
LAYER_TOP == "Top Layer"
LAYER_MULTI == "MultiLayer"
LAYER_TOP_OVERLAY == "Top Overlay"
SHAPE_ROUND == "Round"
SHAPE_RECTANGULAR == "Rectangular"
SHAPE_ROUNDED_RECTANGLE == "Rounded Rectangle"
SHAPE_OVAL == "Oval"
DRILL_ROUND == "Round"
DRILL_SLOT == "Slot"

SHAPE_MAP(shape) ==
    CASE shape = "round" -> SHAPE_ROUND
      [] shape = "rectangular" -> SHAPE_RECTANGULAR
      [] shape = "rounded_rectangle" -> SHAPE_ROUNDED_RECTANGLE
      [] shape = "oval" -> SHAPE_OVAL
      [] OTHER -> SHAPE_RECTANGULAR

(***************************************************************************)
(* Lines of the output text                                                *)
(***************************************************************************)
TagLine(tag) == [k |-> tag, f |-> "tag", s |-> "", n |-> 0]
BlankLine == [k |-> "", f |-> "blank", s |-> "", n |-> 0]
TextLine(key, text) == [k |-> key, f |-> "s", s |-> text, n |-> 0]
IntLine(key, i) == [k |-> key, f |-> "d", s |-> "", n |-> i]
FixedLine(key, milli, suffix) == [k |-> key, f |-> ".3f", s |-> suffix, n |-> milli]

(***************************************************************************)
(* generator.py: formatting helpers.  f"{value:.3f}" rounds the value to   *)
(* the nearest 0.001; Round3 maps a count of 0.0001 to a count of 0.001.   *)
(* An exact tie is rounded by Python on the binary value of the float; the *)
(* inputs below contain no tie, for which Round3 rounds half away from 0.  *)
(***************************************************************************)
Round3(v) == IF v >= 0 THEN (v + 5) \div 10 ELSE -((5 - v) \div 10)

_format_coord(key, value) == FixedLine(key, Round3(value), "mm")
_format_dim(key, value) == FixedLine(key, Round3(value), "mm")
_format_rotation(key, value) == FixedLine(key, Round3(value), "")

(***************************************************************************)
(* generator.py: AltiumGenerator                                           *)
(***************************************************************************)
(* _next_record_id: the value the counter takes, which is also returned.   *)
_next_record_id_skip(rid) == rid + 2
_next_record_id(rid) == rid + 1

_write_header ==
    << TextLine("PCB Library Document", ""),
       TextLine("Version", "1.0"),
       TextLine("Encoding", "UTF-8"),
       BlankLine >>

_write_footer == << BlankLine, TextLine("End PCB Library", "") >>

_write_component_record(fp, rid) ==
    << TagLine("[Component]"), TextLine("Name", fp.name) >>
    \o (IF TruthyStr(fp.description)
        THEN << TextLine("Description", fp.description) >> ELSE << >>)
    \o << IntLine("RecordID", rid), BlankLine >>

PadLayer_swapped(pad) == IF pad.pad_type = SMD THEN LAYER_MULTI ELSE LAYER_TOP
PadLayer(pad) == IF pad.pad_type = SMD THEN LAYER_TOP ELSE LAYER_MULTI

HasDrillBlock_anyMount(pad) == TruthyModel(pad.drill)
HasDrillBlock(pad) == pad.pad_type = THROUGH_HOLE /\ TruthyModel(pad.drill)

IsSlotDrill_presentOnly(drill) ==
    drill.drill_type = DRILL_TYPE_SLOT /\ ~IsNone(drill.slot_length)
IsSlotDrill(drill) ==
    drill.drill_type = DRILL_TYPE_SLOT /\ TruthyFloat(drill.slot_length)

_write_drill_info(pad) ==
    LET drill == Get(pad.drill) IN
    << _format_dim("HoleSize", drill.diameter) >>
    \o (IF IsSlotDrill(drill)
        THEN << TextLine("DrillType", DRILL_SLOT),
                _format_dim("SlotLength", Get(drill.slot_length)) >>
        ELSE << TextLine("DrillType", DRILL_ROUND) >>)

_write_pad_record(pad, rid) ==
    << TagLine("[Pad]"),
       IntLine("RecordID", rid),
       TextLine("Designator", pad.designator),
       TextLine("Layer", PadLayer(pad)),
       _format_coord("X", pad.x),
       _format_coord("Y", pad.y),
       _format_rotation("Rotation", pad.rotation),
       TextLine("Shape", SHAPE_MAP(pad.shape)),
       _format_dim("XSize", pad.width),
       _format_dim("YSize", pad.height) >>
    \o (IF HasDrillBlock(pad) THEN _write_drill_info(pad) ELSE << >>)
    \o << BlankLine >>

_write_via_record(via, rid) ==
    << TagLine("[Via]"),
       IntLine("RecordID", rid),
       TextLine("Layer", LAYER_MULTI),
       _format_coord("X", via.x),
       _format_coord("Y", via.y),
       _format_dim("Diameter", via.diameter),
       _format_dim("HoleSize", via.drill_diameter),
       BlankLine >>

(* The four corners of _write_outline_tracks.  width / 2 is exact on a     *)
(* float; the outline sizes below are even counts so \div 2 is exact too.  *)
Corners_clockwise(outline) ==
    LET half_w == outline.width \div 2
        half_h == outline.height \div 2
    IN << <<-half_w, -half_h>>, <<-half_w, half_h>>,
          <<half_w, half_h>>, <<half_w, -half_h>> >>
Corners(outline) ==
    LET half_w == outline.width \div 2
        half_h == outline.height \div 2
    IN << <<-half_w, -half_h>>, <<half_w, -half_h>>,
          <<half_w, half_h>>, <<-half_w, half_h>> >>

TrackRecord(outline, i, rid) ==
    LET corners == Corners(outline)
        start == corners[i + 1]
        end == corners[((i + 1) % 4) + 1]
    IN << TagLine("[Track]"),
          IntLine("RecordID", rid),
          TextLine("Layer", LAYER_TOP_OVERLAY),
          _format_coord("X1", start[1]),
          _format_coord("Y1", start[2]),
          _format_coord("X2", end[1]),
          _format_coord("Y2", end[2]),
          _format_dim("Width", outline.line_width),
          BlankLine >>

(* The loop of _write_outline_tracks for i in range(4), from counter rid:  *)
(* the i-th track takes the i-th next record id.                           *)
RECURSIVE TrackLoop(_, _, _)
TrackLoop(outline, i, rid) ==
    IF i = 4 THEN << >>
    ELSE TrackRecord(outline, i, _next_record_id(rid))
         \o TrackLoop(outline, i + 1, _next_record_id(rid))

RECURSIVE Iterate(_, _)
Iterate(rid, times) ==
    IF times = 0 THEN rid ELSE Iterate(_next_record_id(rid), times - 1)

(* _find_pin1: index (1-based) of the pad returned, 0 for None.            *)
FirstIndexOf(pads, designator) ==
    IF \E i \in 1..Len(pads) : pads[i].designator = designator
    THEN CHOOSE i \in 1..Len(pads) :
            /\ pads[i].designator = designator
            /\ \A j \in 1..(i - 1) : pads[j].designator # designator
    ELSE 0

_find_pin1_firstPadOnly(pads) == IF TruthyList(pads) THEN 1 ELSE 0
_find_pin1(pads) ==
    IF FirstIndexOf(pads, "1") # 0 THEN FirstIndexOf(pads, "1")
    ELSE IF TruthyList(pads) THEN 1
    ELSE 0

HalfMm == 5000

IndicatorX_towardOrigin(pin1) == IF pin1.x < 0 THEN pin1.x + HalfMm ELSE pin1.x - HalfMm
IndicatorX(pin1) == IF pin1.x < 0 THEN pin1.x - HalfMm ELSE pin1.x + HalfMm
IndicatorY(pin1) == IF pin1.y > 0 THEN pin1.y + HalfMm ELSE pin1.y - HalfMm

ArcRecord(pin1, rid) ==
    << TagLine("[Arc]"),
       IntLine("RecordID", rid),
       TextLine("Layer", LAYER_TOP_OVERLAY),
       _format_coord("X", IndicatorX(pin1)),
       _format_coord("Y", IndicatorY(pin1)),
       TextLine("Radius", "0.25mm"),
       TextLine("StartAngle", "0"),
       TextLine("EndAngle", "360"),
       TextLine("Width", "0.15mm"),
       BlankLine >>

(* generate(): the order of its statements.                                *)
GenerateOrder_viasFirst == <<"header", "component", "vias", "pads", "outline", "footer">>
GenerateOrder == <<"header", "component", "pads", "vias", "outline", "footer">>

(* A stage of generate() with nothing to do is passed over: a for loop     *)
(* over an empty list, and the outline block when `if self.footprint.      *)
(* outline` is false.                                                      *)
HasWork(stage, fp) ==
    CASE stage = "pads" -> TruthyList(fp.pads)
      [] stage = "vias" -> TruthyList(fp.vias)
      [] stage = "outline" -> TruthyModel(fp.outline)
      [] OTHER -> TRUE

RECURSIVE StageFrom(_, _)
StageFrom(i, fp) ==
    IF HasWork(GenerateOrder[i], fp) THEN GenerateOrder[i] ELSE StageFrom(i + 1, fp)

StageAfter(stage, fp) ==
    LET i == CHOOSE j \in 1..Len(GenerateOrder) : GenerateOrder[j] = stage
    IN StageFrom(i + 1, fp)

(***************************************************************************)
(* Footprints given to the generator.  Any Footprint that models.py        *)
(* constructs can be given: the pad set holds the geometry cases (sign of  *)
(* x and y, designator) and the mount/drill cases.                         *)
(***************************************************************************)
SeqUpTo(S, n) == UNION {[1..k -> S] : k \in 0..n}

Positions == {<<-24980, 19050>>, <<12346, -5006>>, <<0, 0>>}

GeomPads ==
    {[designator |-> dp[1], x |-> dp[2][1], y |-> dp[2][2], width |-> 8020, height |-> 15050,
      rotation |-> 900000, shape |-> "rectangular", pad_type |-> SMD,
      drill |-> None, confidence |-> 100] :
        dp \in ({"1"} \X Positions) \cup {<<"2", <<0, 0>>>>}}

Drills ==
    {[diameter |-> 9000, slot_length |-> None, drill_type |-> DRILL_TYPE_ROUND],
     [diameter |-> 9000, slot_length |-> Some(24500), drill_type |-> DRILL_TYPE_ROUND],
     [diameter |-> 6500, slot_length |-> Some(24500), drill_type |-> DRILL_TYPE_SLOT],
     [diameter |-> 6500, slot_length |-> None, drill_type |-> DRILL_TYPE_SLOT],
     [diameter |-> 6500, slot_length |-> Some(0), drill_type |-> DRILL_TYPE_SLOT]}

MountDrill ==
    {<<SMD, Some(d)>> : d \in {d \in Drills : d.drill_type = DRILL_TYPE_ROUND /\ IsNone(d.slot_length)}}
    \cup {<<THROUGH_HOLE, None>>}
    \cup {<<THROUGH_HOLE, Some(d)>> : d \in Drills}

DrillPads ==
    {[designator |-> "3",
      x |-> IF m[1] = SMD THEN 57150 ELSE -57150,
      y |-> IF m[1] = SMD THEN 88900 ELSE -88900,
      width |-> 15000, height |-> 15000,
      rotation |-> 0, shape |-> "round", pad_type |-> m[1],
      drill |-> m[2], confidence |-> 45] : m \in MountDrill}

PadSet == GeomPads \cup DrillPads

ViaSet ==
    {[x |-> 5500, y |-> -11000, diameter |-> 5000, drill_diameter |-> 2000],
     [x |-> -5500, y |-> 11000, diameter |-> 6000, drill_diameter |-> 3000]}

OutlineSet == {None, Some([width |-> 24692, height |-> 40000, line_width |-> 1500])}

Footprints ==
    {[name |-> "SO-8EP", description |-> d, pads |-> ps, vias |-> vs, outline |-> o] :
        d \in {"", "SOIC-8"}, ps \in SeqUpTo(PadSet, MaxPads),
        vs \in SeqUpTo(ViaSet, MaxVias), o \in OutlineSet}

(***************************************************************************)
(* Generator state machine                                                 *)
(***************************************************************************)
(* The footprints of the re-emission specification: fewer pad cases, as    *)
(* each behaviour emits the footprint up to MaxEmissions times.            *)
RePadSet == {p \in PadSet : p.designator = "3" /\ p.pad_type = SMD}
             \cup {p \in PadSet : p.designator = "1" /\ p.x < 0}

ReFootprints == {fp \in Footprints : \A i \in 1..Len(fp.pads) : fp.pads[i] \in RePadSet}

(* budget: the number of emissions the caller still makes.                 *)
InitGen ==
    /\ footprint \in Footprints
    /\ budget = 1
    /\ record_id = << >>
    /\ self = 0
    /\ call = ""
    /\ output = << >>
    /\ pc = "idle"
    /\ idx = 0
    /\ results = << >>

InitRe ==
    /\ footprint \in ReFootprints
    /\ budget = MaxEmissions
    /\ record_id = << >>
    /\ self = 0
    /\ call = ""
    /\ output = << >>
    /\ pc = "idle"
    /\ idx = 0
    /\ results = << >>

(* AltiumGenerator(footprint): a new instance with _record_id = 0.         *)
Construct ==
    /\ pc = "idle"
    /\ Len(record_id) < MaxInstances
    /\ record_id' = Append(record_id, 0)
    /\ UNCHANGED <<footprint, self, call, output, pc, idx, results, budget>>
    /\ UNCHANGED <<modelVars, verifyVars, apiVars>>

(* generator.generate() on an existing instance: a new StringIO, the       *)
(* instance's counter is left as it is.                                    *)
Generate(k) ==
    /\ pc = "idle"
    /\ k \in 1..Len(record_id)
    /\ budget > 0
    /\ budget' = budget - 1
    /\ self' = k
    /\ call' = "generate"
    /\ output' = << >>
    /\ pc' = GenerateOrder[1]
    /\ idx' = 1
    /\ UNCHANGED <<footprint, record_id, results>>
    /\ UNCHANGED <<modelVars, verifyVars, apiVars>>

(* generate_pcblib(footprint): a local instance, then generate().          *)
GeneratePcblib ==
    /\ pc = "idle"
    /\ budget > 0
    /\ budget' = budget - 1
    /\ record_id' = Append(record_id, 0)
    /\ self' = Len(record_id) + 1
    /\ call' = "generate_pcblib"
    /\ output' = << >>
    /\ pc' = GenerateOrder[1]
    /\ idx' = 1
    /\ UNCHANGED <<footprint, results>>
    /\ UNCHANGED <<modelVars, verifyVars, apiVars>>

WriteHeader ==
    /\ pc = "header"
    /\ output' = output \o _write_header
    /\ pc' = StageAfter(pc, footprint)
    /\ idx' = 1
    /\ UNCHANGED <<footprint, record_id, self, call, results, budget>>
    /\ UNCHANGED <<modelVars, verifyVars, apiVars>>

WriteComponentRecord ==
    /\ pc = "component"
    /\ LET rid == _next_record_id(record_id[self]) IN
        /\ record_id' = [record_id EXCEPT ![self] = rid]
        /\ output' = output \o _write_component_record(footprint, rid)
    /\ pc' = StageAfter(pc, footprint)
    /\ idx' = 1
    /\ UNCHANGED <<footprint, self, call, results, budget>>
    /\ UNCHANGED <<modelVars, verifyVars, apiVars>>

(* One iteration of `for pad in self.footprint.pads`.                      *)
WritePadRecord ==
    /\ pc = "pads"
    /\ idx <= Len(footprint.pads)
    /\ LET rid == _next_record_id(record_id[self]) IN
        /\ record_id' = [record_id EXCEPT ![self] = rid]
        /\ output' = output \o _write_pad_record(footprint.pads[idx], rid)
    /\ IF idx < Len(footprint.pads)
       THEN idx' = idx + 1 /\ pc' = pc
       ELSE idx' = 1 /\ pc' = StageAfter(pc, footprint)
    /\ UNCHANGED <<footprint, self, call, results, budget>>
    /\ UNCHANGED <<modelVars, verifyVars, apiVars>>

(* One iteration of `for via in self.footprint.vias`.                      *)
WriteViaRecord ==
    /\ pc = "vias"
    /\ idx <= Len(footprint.vias)
    /\ LET rid == _next_record_id(record_id[self]) IN
        /\ record_id' = [record_id EXCEPT ![self] = rid]
        /\ output' = output \o _write_via_record(footprint.vias[idx], rid)
    /\ IF idx < Len(footprint.vias)
       THEN idx' = idx + 1 /\ pc' = pc
       ELSE idx' = 1 /\ pc' = StageAfter(pc, footprint)
    /\ UNCHANGED <<footprint, self, call, results, budget>>
    /\ UNCHANGED <<modelVars, verifyVars, apiVars>>

WriteOutlineTracks ==
    /\ pc = "outline"
    /\ TruthyModel(footprint.outline)
    /\ output' = output \o TrackLoop(Get(footprint.outline), 0, record_id[self])
    /\ record_id' = [record_id EXCEPT ![self] = Iterate(record_id[self], 4)]
    /\ pc' = "pin1"
    /\ UNCHANGED <<footprint, self, call, idx, results, budget>>
    /\ UNCHANGED <<modelVars, verifyVars, apiVars>>

WritePin1Indicator ==
    /\ pc = "pin1"
    /\ LET p == _find_pin1(footprint.pads) IN
        IF p = 0
        THEN UNCHANGED <<record_id, output>>
        ELSE LET rid == _next_record_id(record_id[self]) IN
            /\ record_id' = [record_id EXCEPT ![self] = rid]
            /\ output' = output \o ArcRecord(footprint.pads[p], rid)
    /\ pc' = StageAfter("outline", footprint)
    /\ UNCHANGED <<footprint, self, call, idx, results, budget>>
    /\ UNCHANGED <<modelVars, verifyVars, apiVars>>

(* _write_footer and return output.getvalue(); the local instance of       *)
(* generate_pcblib goes out of scope.                                      *)
WriteFooter ==
    /\ pc = "footer"
    /\ output' = output \o _write_footer
    /\ results' = Append(results, [text |-> output', call |-> call])
    /\ record_id' = IF call = "generate_pcblib"
                    THEN SubSeq(record_id, 1, Len(record_id) - 1)
                    ELSE record_id
    /\ pc' = "idle"
    /\ UNCHANGED <<footprint, self, call, idx, budget>>
    /\ UNCHANGED <<modelVars, verifyVars, apiVars>>

Next ==
    \/ Construct
    \/ \E k \in 1..MaxInstances : Generate(k)
    \/ GeneratePcblib
    \/ WriteHeader
    \/ WriteComponentRecord
    \/ WritePadRecord
    \/ WriteViaRecord
    \/ WriteOutlineTracks
    \/ WritePin1Indicator
    \/ WriteFooter

(***************************************************************************)
(* models.py: constructors.  pydantic checks the declared constraints      *)
(* only: Pad.confidence has ge=0.0, le=1.0; no other field of Drill, Pad,  *)
(* Via or Outline declares one.  The arguments here are numbers and        *)
(* strings of the declared types, all required fields given.               *)
(***************************************************************************)
PadValid_lowerOnly(args) == args.confidence >= 0
PadValid(args) == args.confidence >= 0 /\ args.confidence <= 100
DrillValid(args) == TRUE
ViaValid(args) == TRUE
OutlineValid(args) == TRUE

NoObjects == [pads |-> << >>, drills |-> << >>, vias |-> << >>, outlines |-> << >>]

DEFAULT_LINE_WIDTH == 1500
DEFAULT_PAD_CONFIDENCE == 100

(* Arguments of the direct constructions.                                  *)
PadArgs ==
    [designator : {"", "1"}, x : {-24980}, y : {19050},
     width : {-8020, 0, 8020}, height : {0, 15050}, rotation : {0},
     shape : {"rectangular"}, pad_type : {SMD}, drill : {None},
     confidence : {-10, 0, 45, 100, 150}]

DrillArgs ==
    [diameter : {-9000, 0, 9000}, slot_length : {None, Some(-24500), Some(0), Some(24500)},
     drill_type : {DRILL_TYPE_ROUND, DRILL_TYPE_SLOT}]

ViaArgs == [x : {5500}, y : {-11000}, diameter : {-5000, 0, 5000}, drill_diameter : {0, 2000}]

OutlineArgs == [width : {-50000, 0, 50000}, height : {0, 40000}, line_width : {DEFAULT_LINE_WIDTH}]

(***************************************************************************)
(* The parsed JSON of the vision model.  A JSON value is a number, a       *)
(* string or null; a key of an object is absent (None) or holds a value.   *)
(***************************************************************************)
JNum(v) == [t |-> "num", v |-> v, s |-> ""]
JStr(str) == [t |-> "str", v |-> 0, s |-> str]
JNull == [t |-> "null", v |-> 0, s |-> ""]

(* dict.get(key, default)                                                  *)
DictGet(field, default) == IF IsNone(field) THEN default ELSE Get(field)

(* float(value): a number converts, a string that is no number raises      *)
(* ValueError (the strings of the inputs are no numbers), None TypeError.  *)
PyFloat(j) ==
    CASE j.t = "num" -> [raised |-> "", v |-> j.v]
      [] j.t = "str" -> [raised |-> "ValueError", v |-> 0]
      [] OTHER -> [raised |-> "TypeError", v |-> 0]

(* str(value)                                                              *)
PyStr(j) ==
    CASE j.t = "str" -> j.s
      [] j.t = "num" -> ToString(j.v)
      [] OTHER -> "None"

(* truth value of a JSON value                                             *)
PyTruthy_zeroIsTrue(j) ==
    CASE j.t = "num" -> TRUE
      [] j.t = "str" -> j.s # ""
      [] OTHER -> FALSE
PyTruthy(j) ==
    CASE j.t = "num" -> j.v # 0
      [] j.t = "str" -> j.s # ""
      [] OTHER -> FALSE

(* value.lower(): only a str has the method.                               *)
Lower(str) ==
    CASE str = "TH" -> "th"
      [] str = "SMD" -> "smd"
      [] str = "Round" -> "round"
      [] str = "RECTANGULAR" -> "rectangular"
      [] OTHER -> str
PyLower(j) ==
    IF j.t = "str" THEN [raised |-> "", s |-> Lower(j.s)]
    ELSE [raised |-> "AttributeError", s |-> ""]

(* The first exception of a sequence of evaluations, "" when none raises.  *)
RECURSIVE FirstRaised(_)
FirstRaised(rs) ==
    IF rs = << >> THEN ""
    ELSE IF Head(rs) # "" THEN Head(rs) ELSE FirstRaised(Tail(rs))

(* shape_map.get(shape_str, PadShape.RECTANGULAR)                          *)
shape_map_noOval(shape_str) ==
    IF shape_str \in {"rectangular", "round", "rounded_rectangle"}
    THEN shape_str ELSE "rectangular"
shape_map(shape_str) ==
    IF shape_str \in {"rectangular", "round", "oval", "rounded_rectangle"}
    THEN shape_str ELSE "rectangular"

(* Drill(diameter=drill_diameter, ..., slot_length=slot_length) on raw     *)
(* JSON values: pydantic takes a number, and None for the Optional.        *)
RawDrill(dd, sl) ==
    LET bad == dd.t # "num" \/ sl.t = "str"
        args == [diameter |-> dd.v,
                 slot_length |-> IF sl.t = "num" THEN Some(sl.v) ELSE None,
                 drill_type |-> IF PyTruthy(sl) THEN DRILL_TYPE_SLOT ELSE DRILL_TYPE_ROUND]
    IN IF bad \/ ~DrillValid(args)
       THEN [raised |-> "ValidationError", drill |-> None]
       ELSE [raised |-> "", drill |-> Some(args)]

(* The body of `for pad_data in response.get("pads", [])`.                 *)
NormalizePad(pd) ==
    LET shape_str == PyLower(DictGet(pd.shape, JStr("rectangular")))
        pad_type_str == PyLower(DictGet(pd.pad_type, JStr("smd")))
        pad_type == IF pad_type_str.s = "th" THEN THROUGH_HOLE ELSE SMD
        drill_diameter == DictGet(pd.drill_diameter, JNull)
        slot_length == DictGet(pd.drill_slot_length, JNull)
        drill == IF pad_type = THROUGH_HOLE /\ PyTruthy(drill_diameter)
                 THEN RawDrill(drill_diameter, slot_length)
                 ELSE [raised |-> "", drill |-> None]
        x == PyFloat(DictGet(pd.x, JNum(0)))
        y == PyFloat(DictGet(pd.y, JNum(0)))
        width == PyFloat(DictGet(pd.width, JNum(0)))
        height == PyFloat(DictGet(pd.height, JNum(0)))
        rotation == PyFloat(DictGet(pd.rotation, JNum(0)))
        args == [designator |-> PyStr(DictGet(pd.designator, JStr(""))),
                 x |-> x.v, y |-> y.v, width |-> width.v, height |-> height.v,
                 rotation |-> rotation.v, shape |-> shape_map(shape_str.s),
                 pad_type |-> pad_type, drill |-> drill.drill,
                 confidence |-> DEFAULT_PAD_CONFIDENCE]
        early == FirstRaised(<<shape_str.raised, pad_type_str.raised, drill.raised,
                               x.raised, y.raised, width.raised, height.raised,
                               rotation.raised>>)
    IN [raised |-> IF early # "" THEN early
                   ELSE IF ~PadValid(args) THEN "ValidationError" ELSE "",
        pad |-> args]

(* outline = Outline(width=float(...), height=float(...)) of               *)
(* response.get("outline", {}).                                            *)
NormalizeOutline(field) ==
    IF ~IsNone(field) /\ Get(field).isnull
    THEN [raised |-> "AttributeError", outline |-> None]
    ELSE LET od == DictGet(field, [isnull |-> FALSE, width |-> None, height |-> None])
             width == PyFloat(DictGet(od.width, JNum(0)))
             height == PyFloat(DictGet(od.height, JNum(0)))
             args == [width |-> width.v, height |-> height.v,
                      line_width |-> DEFAULT_LINE_WIDTH]
             early == FirstRaised(<<width.raised, height.raised>>)
         IN [raised |-> IF early # "" THEN early
                        ELSE IF ~OutlineValid(args) THEN "ValidationError" ELSE "",
             outline |-> Some(args)]

DEFAULT_VIA_DIAMETER == 6000
DEFAULT_VIA_DRILL == 3000

(* The body of `for via_data in response.get("vias", [])`.                 *)
NormalizeVia(vd) ==
    LET x == PyFloat(DictGet(vd.x, JNum(0)))
        y == PyFloat(DictGet(vd.y, JNum(0)))
        diameter == PyFloat(DictGet(vd.outer_diameter, JNum(DEFAULT_VIA_DIAMETER)))
        drill_diameter == PyFloat(DictGet(vd.drill_diameter, JNum(DEFAULT_VIA_DRILL)))
        args == [x |-> x.v, y |-> y.v, diameter |-> diameter.v,
                 drill_diameter |-> drill_diameter.v]
        early == FirstRaised(<<x.raised, y.raised, diameter.raised, drill_diameter.raised>>)
    IN [raised |-> IF early # "" THEN early
                   ELSE IF ~ViaValid(args) THEN "ValidationError" ELSE "",
        via |-> args]

DEFAULT_OVERALL_CONFIDENCE == 50

(* ExtractionResult(...): overall_confidence is a float with ge=0.0,       *)
(* le=1.0.                                                                 *)
ExtractionResultValid(args) ==
    /\ args.overall_confidence.t = "num"
    /\ args.overall_confidence.v >= 0 /\ args.overall_confidence.v <= 100

(* Footprint(name=response.get("footprint_name", "EXTRACTED"), ...): name  *)
(* is a str.                                                               *)
FootprintValid(name) == name.t = "str"

(* The pin-1 scan: `for i, pad in enumerate(pads)`, 0-based index of the   *)
(* first pad whose designator equals str(pin1_designator).                 *)
Pin1Index_fallback0(pads, designator) ==
    IF PyTruthy(designator) /\ FirstIndexOf(pads, PyStr(designator)) # 0
    THEN Some(FirstIndexOf(pads, PyStr(designator)) - 1)
    ELSE IF pads # << >> THEN Some(0) ELSE None
Pin1Index(pads, designator) ==
    IF PyTruthy(designator) /\ FirstIndexOf(pads, PyStr(designator)) # 0
    THEN Some(FirstIndexOf(pads, PyStr(designator)) - 1)
    ELSE None

RECURSIVE DrillsOf(_)
DrillsOf(pads) ==
    IF pads = << >> THEN << >>
    ELSE Head(pads).drill \o DrillsOf(Tail(pads))

_response_to_footprint(resp) ==
    LET pds == DictGet(resp.pads, << >>)
        prs == [i \in 1..Len(pds) |-> NormalizePad(pds[i])]
        pads == [i \in 1..Len(pds) |-> prs[i].pad]
        o == NormalizeOutline(resp.outline)
        vds == DictGet(resp.vias, << >>)
        vrs == [i \in 1..Len(vds) |-> NormalizeVia(vds[i])]
        vias == [i \in 1..Len(vds) |-> vrs[i].via]
        name == DictGet(resp.footprint_name, JStr("EXTRACTED"))
        fp == [name |-> name.s, description |-> "Extracted from datasheet image",
               pads |-> pads, vias |-> vias, outline |-> o.outline]
        p1bad == ~IsNone(resp.pin1_location) /\ Get(resp.pin1_location).isnull
        p1 == IF IsNone(resp.pin1_location) \/ p1bad THEN JNull
              ELSE DictGet(Get(resp.pin1_location).designator, JNull)
        pin1_index == Pin1Index(pads, p1)
        er == [package_type |-> "custom",
               standard_detected |-> resp.standard_package_detected,
               units |-> "mm", pads |-> pads, vias |-> vias,
               pin1_detected |-> ~IsNone(pin1_index), pin1_index |-> pin1_index,
               outline |-> o.outline,
               overall_confidence |-> DictGet(resp.overall_confidence,
                                              JNum(DEFAULT_OVERALL_CONFIDENCE)),
               warnings |-> DictGet(resp.warnings, << >>)]
        exc == FirstRaised(
                 [i \in 1..Len(pds) |-> prs[i].raised]
                 \o << o.raised >>
                 \o [i \in 1..Len(vds) |-> vrs[i].raised]
                 \o << IF FootprintValid(name) THEN "" ELSE "ValidationError",
                       IF p1bad THEN "AttributeError" ELSE "",
                       IF ExtractionResultValid(er) THEN "" ELSE "ValidationError" >>)
    IN [raised |-> exc, footprint |-> fp, extraction_result |-> er]

(***************************************************************************)
(* The responses given to the normalizer.                                  *)
(***************************************************************************)
(* pad_type, drill_diameter, drill_slot_length and confidence of an entry. *)
RawPadKinds ==
    {<<None, None, None, None>>,
     <<Some(JStr("th")), Some(JNum(9000)), None, Some(JNum(95))>>,
     <<Some(JStr("TH")), Some(JNum(-9000)), Some(JNum(-24500)), Some(JNum(150))>>}

MorePadKinds ==
    {<<Some(JStr("smd")), Some(JNum(9000)), None, Some(JNum(45))>>,
     <<Some(JStr("thermal")), None, None, Some(JNum(45))>>,
     <<Some(JStr("th")), None, Some(JNum(24500)), None>>,
     <<Some(JStr("th")), Some(JNum(0)), None, None>>,
     <<Some(JStr("th")), Some(JNull), None, None>>,
     <<Some(JStr("th")), Some(JNum(9000)), Some(JNum(0)), None>>,
     <<Some(JStr("th")), Some(JNum(9000)), Some(JNum(24500)), None>>,
     <<Some(JStr("th")), Some(JNum(9000)), Some(JNull), None>>,
     <<Some(JNull), None, None, None>>,
     <<Some(JNum(1)), None, None, None>>}

RawShapes ==
    {None, Some(JStr("rectangular")), Some(JStr("round")), Some(JStr("Round")),
     Some(JStr("oval")), Some(JStr("rounded_rectangle")), Some(JStr("hexagon")),
     Some(JNum(3)), Some(JNull)}

RawWidths == {None, Some(JNum(8020)), Some(JNull), Some(JStr("wide"))}

RawDesignators == {None, Some(JStr("1")), Some(JStr("2")), Some(JNum(1))}

PadEntry(d, w, sh, m) ==
    [designator |-> d, x |-> Some(JNum(-24980)), y |-> Some(JNum(19050)),
     width |-> w, height |-> Some(JNum(15050)), shape |-> sh,
     pad_type |-> m[1], rotation |-> None,
     drill_diameter |-> m[2], drill_slot_length |-> m[3], confidence |-> m[4]]

(* Entries that vary one field each, and the entries the lists are made of. *)
PadDataSet ==
    {PadEntry(d, w, Some(JStr("rectangular")), m) :
        d \in {None, Some(JStr("1"))}, w \in {None, Some(JNum(8020))},
        m \in RawPadKinds}
    \cup {PadEntry(Some(JStr("1")), Some(JNum(8020)), sh, <<None, None, None, None>>) :
            sh \in RawShapes}
    \cup {PadEntry(Some(JStr("1")), Some(JNum(8020)), Some(JStr("round")), m) :
            m \in MorePadKinds}
    \cup {PadEntry(Some(JStr("1")), w, None, <<None, None, None, Some(JNum(45))>>) :
            w \in RawWidths}

PadDataCore ==
    {PadEntry(d, Some(JNum(8020)), Some(JStr("rectangular")), <<None, None, None, None>>) :
        d \in RawDesignators}
    \cup {PadEntry(Some(JStr("2")), Some(JNull), Some(JStr("rectangular")),
                   <<None, None, None, None>>)}

RawPadLists == SeqUpTo(PadDataCore, MaxRawPads) \cup {<< e >> : e \in PadDataSet}

ViaDataSet ==
    {[x |-> None, y |-> None, outer_diameter |-> None, drill_diameter |-> None],
     [x |-> Some(JNum(5500)), y |-> Some(JNum(-11000)),
      outer_diameter |-> Some(JNum(-5000)), drill_diameter |-> Some(JNum(0))],
     [x |-> Some(JNull), y |-> Some(JNum(-11000)),
      outer_diameter |-> Some(JNum(5000)), drill_diameter |-> Some(JNum(2000))],
     [x |-> Some(JNum(5500)), y |-> Some(JNum(-11000)),
      outer_diameter |-> Some(JStr("big")), drill_diameter |-> Some(JNum(2000))]}

OutlineDataSet ==
    {None,
     Some([isnull |-> FALSE, width |-> Some(JNum(50000)), height |-> Some(JNum(40000))]),
     Some([isnull |-> FALSE, width |-> Some(JNum(-50000)), height |-> None]),
     Some([isnull |-> FALSE, width |-> Some(JNull), height |-> Some(JNum(40000))]),
     Some([isnull |-> TRUE, width |-> None, height |-> None])}

Pin1DataSet ==
    {None,
     Some([isnull |-> FALSE, designator |-> Some(JStr("1"))]),
     Some([isnull |-> FALSE, designator |-> Some(JNum(1))]),
     Some([isnull |-> FALSE, designator |-> Some(JStr("7"))]),
     Some([isnull |-> FALSE, designator |-> Some(JStr(""))]),
     Some([isnull |-> FALSE, designator |-> None]),
     Some([isnull |-> TRUE, designator |-> None])}

OverallDataSet == {None, Some(JNum(91)), Some(JNum(150)), Some(JNull)}

MkResponse(ps, vs, o, p1, oc) ==
    [pads |-> Some(ps), vias |-> Some(vs), outline |-> o, pin1_location |-> p1,
     footprint_name |-> Some(JStr("SO-8EP")), overall_confidence |-> oc,
     warnings |-> None, standard_package_detected |-> None]

BaseOutlineData ==
    Some([isnull |-> FALSE, width |-> Some(JNum(50000)), height |-> Some(JNum(40000))])
BasePin1Data == Some([isnull |-> FALSE, designator |-> Some(JStr("1"))])

(* Pad lists against the pin-1 declaration; vias, outline and overall      *)
(* confidence against a short pad list.                                    *)
Responses ==
    {MkResponse(ps, << >>, o, p1, Some(JNum(91))) :
        ps \in RawPadLists, o \in {None, BaseOutlineData}, p1 \in Pin1DataSet}
    \cup {MkResponse(ps, vs, o, BasePin1Data, oc) :
            ps \in SeqUpTo({PadEntry(Some(JStr("1")), None, Some(JStr("rectangular")),
                                     <<None, None, None, None>>)}, 1),
            vs \in SeqUpTo(ViaDataSet, MaxRawVias),
            o \in OutlineDataSet, oc \in OverallDataSet}

(***************************************************************************)
(* Domain-model state machine: direct constructions, and the normalizer    *)
(* on a received response.                                                 *)
(***************************************************************************)
IdleModels ==
    /\ phase = "idle"
    /\ response = None
    /\ attempt = NoObjects
    /\ made = NoObjects
    /\ raised = ""
    /\ norm = None

(* Pad(...)                                                                 *)
NewPad(args) ==
    /\ phase = "idle"
    /\ phase' = "constructed"
    /\ attempt' = [NoObjects EXCEPT !.pads = << args >>]
    /\ IF PadValid(args)
       THEN made' = [NoObjects EXCEPT !.pads = << args >>] /\ raised' = ""
       ELSE made' = NoObjects /\ raised' = "ValidationError"
    /\ UNCHANGED <<response, norm>>
    /\ UNCHANGED <<genVars, verifyVars, apiVars>>

(* Drill(...)                                                               *)
NewDrill(args) ==
    /\ phase = "idle"
    /\ phase' = "constructed"
    /\ attempt' = [NoObjects EXCEPT !.drills = << args >>]
    /\ IF DrillValid(args)
       THEN made' = [NoObjects EXCEPT !.drills = << args >>] /\ raised' = ""
       ELSE made' = NoObjects /\ raised' = "ValidationError"
    /\ UNCHANGED <<response, norm>>
    /\ UNCHANGED <<genVars, verifyVars, apiVars>>

(* Via(...)                                                                 *)
NewVia(args) ==
    /\ phase = "idle"
    /\ phase' = "constructed"
    /\ attempt' = [NoObjects EXCEPT !.vias = << args >>]
    /\ IF ViaValid(args)
       THEN made' = [NoObjects EXCEPT !.vias = << args >>] /\ raised' = ""
       ELSE made' = NoObjects /\ raised' = "ValidationError"
    /\ UNCHANGED <<response, norm>>
    /\ UNCHANGED <<genVars, verifyVars, apiVars>>

(* Outline(...)                                                             *)
NewOutline(args) ==
    /\ phase = "idle"
    /\ phase' = "constructed"
    /\ attempt' = [NoObjects EXCEPT !.outlines = << args >>]
    /\ IF OutlineValid(args)
       THEN made' = [NoObjects EXCEPT !.outlines = << args >>] /\ raised' = ""
       ELSE made' = NoObjects /\ raised' = "ValidationError"
    /\ UNCHANGED <<response, norm>>
    /\ UNCHANGED <<genVars, verifyVars, apiVars>>

(* raw_response = self._parse_json_response(response_text)                 *)
Receive(resp) ==
    /\ phase = "idle"
    /\ phase' = "received"
    /\ response' = Some(resp)
    /\ UNCHANGED <<attempt, made, raised, norm>>
    /\ UNCHANGED <<genVars, verifyVars, apiVars>>

(* footprint, extraction_result = self._response_to_footprint(raw_response) *)
ResponseToFootprint ==
    /\ phase = "received"
    /\ phase' = "normalized"
    /\ \E r \in {_response_to_footprint(Get(response))} :
        /\ raised' = r.raised
        /\ IF r.raised = ""
           THEN /\ norm' = Some([footprint |-> r.footprint,
                                 extraction_result |-> r.extraction_result])
                /\ made' = [pads |-> r.footprint.pads,
                            drills |-> DrillsOf(r.footprint.pads),
                            vias |-> r.footprint.vias,
                            outlines |-> r.footprint.outline]
           ELSE norm' = None /\ made' = NoObjects
    /\ UNCHANGED <<response, attempt>>
    /\ UNCHANGED <<genVars, verifyVars, apiVars>>

NextModels ==
    \/ \E args \in PadArgs : NewPad(args)
    \/ \E args \in DrillArgs : NewDrill(args)
    \/ \E args \in ViaArgs : NewVia(args)
    \/ \E args \in OutlineArgs : NewOutline(args)
    \/ \E resp \in Responses : Receive(resp)
    \/ ResponseToFootprint

(***************************************************************************)
(* verification.py: detect_suspicious_values                               *)
(***************************************************************************)
THERMAL_DESIGNATORS == {"EP", "9", "thermal"}

(* [p for p in extraction_result.pads if p.designator not in (...)]        *)
SignalPads(pads) == SelectSeq(pads, LAMBDA p : p.designator \notin THERMAL_DESIGNATORS)

(* sorted(signal_pads, key=lambda p: (p.x, p.y)): a stable sort.           *)
KeyLE(a, b) == a.x < b.x \/ (a.x = b.x /\ a.y <= b.y)

RECURSIVE InsertSorted(_, _)
InsertSorted(p, sorted) ==
    IF sorted = << >> THEN << p >>
    ELSE IF KeyLE(Head(sorted), p) THEN << Head(sorted) >> \o InsertSorted(p, Tail(sorted))
    ELSE << p >> \o sorted

RECURSIVE SortedPads(_)
SortedPads(pads) ==
    IF pads = << >> THEN << >>
    ELSE InsertSorted(pads[Len(pads)], SortedPads(SubSeq(pads, 1, Len(pads) - 1)))

AbsDiff(a, b) == IF a >= b THEN a - b ELSE b - a

SAME_SIDE_TOLERANCE == 5000
MIN_PITCH == 1000

(* The loop `for i in range(len(sorted_pads) - 1)`: the pitch of each pair *)
(* of neighbours of similar X, tiny differences ignored.                   *)
RECURSIVE Pitches(_)
Pitches(sorted_pads) ==
    IF Len(sorted_pads) < 2 THEN << >>
    ELSE LET p1 == sorted_pads[1]
             p2 == sorted_pads[2]
             pitch == AbsDiff(p1.y, p2.y)
         IN (IF AbsDiff(p1.x, p2.x) < SAME_SIDE_TOLERANCE /\ pitch > MIN_PITCH
             THEN << pitch >> ELSE << >>) \o Pitches(Tail(sorted_pads))

RECURSIVE SumSeq(_)
SumSeq(seq) == IF seq = << >> THEN 0 ELSE Head(seq) + SumSeq(Tail(seq))

(* 0.90 <= dimension / avg_pitch <= 1.10 with avg_pitch = total / count,   *)
(* the ratio being 0 when avg_pitch is not positive.                       *)
MatchesPitch_exclusive(dimension, total, count) ==
    /\ total > 0
    /\ 9 * total < 10 * dimension * count
    /\ 10 * dimension * count < 11 * total
MatchesPitch(dimension, total, count) ==
    /\ total > 0
    /\ 9 * total <= 10 * dimension * count
    /\ 10 * dimension * count <= 11 * total

REASON_PITCH == "Pad dimension matches calculated pitch - possible confusion"
REASON_THERMAL ==
    "No thermal pad detected but package has 8+ signal pads - verify if EP exists"

MIN_PADS_FOR_THERMAL == 8

(* len(signal_pads) >= 8                                                   *)
ExpectsThermal_moreThan(count) == count > MIN_PADS_FOR_THERMAL
ExpectsThermal(count) == count >= MIN_PADS_FOR_THERMAL

NotSuspicious == [needs_verification |-> FALSE, reasons |-> << >>, likely_pitch |-> None]

(* likely_pitch is the average as the pair <<total, count>>.               *)
detect_suspicious_values(extraction_result) ==
    LET signal_pads == SignalPads(extraction_result.pads)
        pitches == Pitches(SortedPads(signal_pads))
        total == SumSeq(pitches)
        confused ==
            /\ Len(signal_pads) >= 2
            /\ pitches # << >>
            /\ \/ MatchesPitch(signal_pads[1].width, total, Len(pitches))
               \/ MatchesPitch(signal_pads[1].height, total, Len(pitches))
        has_thermal == \E i \in 1..Len(extraction_result.pads) :
                          extraction_result.pads[i].designator \in THERMAL_DESIGNATORS
        missing == ~has_thermal /\ ExpectsThermal(Len(signal_pads))
    IN IF extraction_result.pads = << >> \/ signal_pads = << >> THEN NotSuspicious
       ELSE [needs_verification |-> confused \/ missing,
             reasons |-> (IF confused THEN << REASON_PITCH >> ELSE << >>)
                         \o (IF missing THEN << REASON_THERMAL >> ELSE << >>),
             likely_pitch |-> IF confused THEN Some(<< total, Len(pitches) >>) ELSE None]

(***************************************************************************)
(* verification.py: verify_extraction and apply_corrections                *)
(***************************************************************************)
(* A warning is a prefix and a text (the f-strings of the code).           *)
Warning(prefix, text) == [prefix |-> prefix, text |-> text]

DEFAULT_VERIFICATION_CONFIDENCE == 50

VerificationResult(verified) ==
    [verified |-> verified, pad_dimensions_corrected |-> FALSE,
     corrected_pad_width |-> None, corrected_pad_height |-> None,
     dimension_issue |-> None, pad_count_corrected |-> FALSE,
     corrected_pad_count |-> None, thermal_pad_issue |-> None,
     confidence |-> 0, confidence_is_none |-> FALSE,
     input_tokens |-> 0, output_tokens |-> 0, error |-> None]

(* The corrector collaborator: client.messages.create raises, or returns a *)
(* text that _parse_json cannot parse (None), or a parsed verdict with     *)
(* the usage of the call.                                                  *)
USAGE_INPUT == 1200
USAGE_OUTPUT == 150

(* The VerificationResult built from a parsed verdict (result.get(...)).   *)
(* result.get("confidence", 0.5) is the default for an absent key only: a  *)
(* null confidence is None (confidence_is_none, the number then unused).   *)
VerificationOfVerdict(v) ==
    [verified |-> DictGet(v.overall_verified, FALSE),
     pad_dimensions_corrected |-> ~DictGet(v.pad_dimensions_correct, TRUE),
     corrected_pad_width |-> v.corrected_pad_width,
     corrected_pad_height |-> v.corrected_pad_height,
     dimension_issue |-> v.dimension_issue,
     pad_count_corrected |-> ~DictGet(v.pad_count_correct, TRUE),
     corrected_pad_count |-> v.corrected_pad_count,
     thermal_pad_issue |-> v.thermal_pad_issue,
     confidence |-> IF v.confidence_null THEN 0
                    ELSE DictGet(v.confidence, DEFAULT_VERIFICATION_CONFIDENCE),
     confidence_is_none |-> v.confidence_null,
     input_tokens |-> USAGE_INPUT, output_tokens |-> USAGE_OUTPUT, error |-> None]

verify_extraction(extraction_result, outcome) ==
    IF ~detect_suspicious_values(extraction_result).needs_verification
    THEN [VerificationResult(TRUE) EXCEPT !.confidence = extraction_result.overall_confidence]
    ELSE IF SignalPads(extraction_result.pads) = << >>
    THEN [VerificationResult(TRUE) EXCEPT !.confidence = DEFAULT_VERIFICATION_CONFIDENCE]
    ELSE CASE outcome.kind = "raises" ->
                [VerificationResult(FALSE) EXCEPT
                    !.error = Some(Warning("Verification failed: ", outcome.text))]
           [] outcome.kind = "unparsable" ->
                [VerificationResult(FALSE) EXCEPT
                    !.error = Some(Warning("", "Could not parse verification response")),
                    !.input_tokens = USAGE_INPUT, !.output_tokens = USAGE_OUTPUT]
           [] OTHER -> VerificationOfVerdict(Get(outcome.verdict))

(* The number of client.messages.create calls of one verify_extraction:    *)
(* the single call of the try block, reached after the two early returns;  *)
(* no branch and no handler calls again.                                   *)
messages_create_calls_retried(extraction_result, outcome) ==
    IF ~detect_suspicious_values(extraction_result).needs_verification THEN 0
    ELSE IF SignalPads(extraction_result.pads) = << >> THEN 0
    ELSE IF outcome.kind = "verdict" THEN 1 ELSE 2
messages_create_calls(extraction_result, outcome) ==
    IF ~detect_suspicious_values(extraction_result).needs_verification THEN 0
    ELSE IF SignalPads(extraction_result.pads) = << >> THEN 0
    ELSE 1

(* `verification.corrected_pad_width or pad.width`                         *)
OrElse_present(corrected, original) == IF ~IsNone(corrected) THEN Get(corrected) ELSE original
OrElse(corrected, original) == IF TruthyFloat(corrected) THEN Get(corrected) ELSE original

(* The body of `for pad in extraction_result.pads`.                        *)
CorrectedPad(pad, v) ==
    IF pad.designator \in THERMAL_DESIGNATORS THEN pad
    ELSE [designator |-> pad.designator, x |-> pad.x, y |-> pad.y,
          width |-> OrElse(v.corrected_pad_width, pad.width),
          height |-> OrElse(v.corrected_pad_height, pad.height),
          rotation |-> pad.rotation, shape |-> pad.shape, pad_type |-> pad.pad_type,
          drill |-> pad.drill, confidence |-> v.confidence]

CorrectionWarnings(v) ==
    (IF ~IsNone(v.dimension_issue) /\ TruthyStr(Get(v.dimension_issue))
     THEN << Warning("Corrected: ", Get(v.dimension_issue)) >> ELSE << >>)
    \o (IF ~IsNone(v.thermal_pad_issue) /\ TruthyStr(Get(v.thermal_pad_issue))
        THEN << Warning("Thermal pad: ", Get(v.thermal_pad_issue)) >> ELSE << >>)

(* `warnings = list(extraction_result.warnings)` and the appends to it.     *)
AccumulatedWarnings_replaced(prior, added) == added
AccumulatedWarnings(prior, added) == prior \o added

(* Returns [raised, value]: Pad(...) and ExtractionResult(...) validate    *)
(* the confidence they are given (None is no float).                       *)
(* `if verification.verified and not verification.pad_dimensions_corrected` *)
ReturnsInput_uncorrected(v) == ~v.pad_dimensions_corrected
ReturnsInput(v) == v.verified /\ ~v.pad_dimensions_corrected

apply_corrections(extraction_result, v) ==
    IF ReturnsInput(v)
    THEN [raised |-> "", value |-> extraction_result]
    ELSE LET corrected_pads ==
                 [i \in 1..Len(extraction_result.pads) |->
                     CorrectedPad(extraction_result.pads[i], v)]
             rebuilt == SignalPads(extraction_result.pads)
             value == [extraction_result EXCEPT
                          !.pads = corrected_pads,
                          !.overall_confidence = v.confidence,
                          !.warnings = AccumulatedWarnings(extraction_result.warnings,
                                                           CorrectionWarnings(v))]
             ok == /\ ~v.confidence_is_none
                   /\ \A i \in 1..Len(rebuilt) : PadValid([confidence |-> v.confidence])
                   /\ v.confidence >= 0 /\ v.confidence <= 100
         IN IF ok THEN [raised |-> "", value |-> value]
            ELSE [raised |-> "ValidationError", value |-> extraction_result]

(***************************************************************************)
(* main.py: _run_verification                                              *)
(***************************************************************************)
(* extraction.warnings.append(f"Verification skipped: {verification.error}") *)
WithSkippedWarning_only(extraction, error) ==
    [extraction EXCEPT !.warnings = << Warning("Verification skipped: ", error) >>]
WithSkippedWarning(extraction, error) ==
    [extraction EXCEPT !.warnings =
        Append(extraction.warnings, Warning("Verification skipped: ", error))]

(* Returns [raised, value, verification, received, calls]: verification is *)
(* None when verify_extraction was not called; received is the object      *)
(* passed as `result` as it is after the call (extraction.warnings.append  *)
(* and result.input_tokens = ... change it in place, and the value         *)
(* returned is then that same object); calls counts the corrector calls.   *)
_run_verification(res, has_api_key, outcome) ==
    LET extraction == Get(res.extraction_result)
        v == verify_extraction(extraction, outcome)
        corrected == apply_corrections(extraction, v)
        total_input == res.input_tokens + v.input_tokens
        total_output == res.output_tokens + v.output_tokens
        calls_made == messages_create_calls(extraction, outcome)
        skipped == [res EXCEPT !.extraction_result =
                       Some(WithSkippedWarning(extraction, Get(v.error)))]
        counted == [res EXCEPT !.input_tokens = total_input,
                               !.output_tokens = total_output]
    IN IF ~detect_suspicious_values(extraction).needs_verification \/ ~has_api_key
       THEN [raised |-> "", value |-> res, verification |-> None,
             received |-> res, calls |-> 0]
       ELSE IF ~IsNone(v.error)
       THEN [raised |-> "", value |-> skipped, verification |-> Some(v),
             received |-> skipped, calls |-> calls_made]
       ELSE IF v.pad_dimensions_corrected \/ ~v.verified
       THEN IF corrected.raised # ""
            THEN [raised |-> corrected.raised, value |-> res, verification |-> Some(v),
                  received |-> res, calls |-> calls_made]
            ELSE [raised |-> "", received |-> res, calls |-> calls_made,
                  value |-> [success |-> TRUE,
                             extraction_result |-> Some(corrected.value),
                             footprint |->
                                Some([name |-> IF ~IsNone(res.footprint)
                                               THEN Get(res.footprint).name
                                               ELSE "Verified_Footprint",
                                      description |-> IF ~IsNone(res.footprint)
                                                      THEN Get(res.footprint).description
                                                      ELSE "",
                                      pads |-> corrected.value.pads,
                                      vias |-> corrected.value.vias,
                                      outline |-> corrected.value.outline]),
                             raw_response |-> None, error |-> None,
                             model_used |-> res.model_used,
                             input_tokens |-> total_input,
                             output_tokens |-> total_output],
                  verification |-> Some(v)]
       ELSE [raised |-> "", value |-> counted, verification |-> Some(v),
             received |-> counted, calls |-> calls_made]

(***************************************************************************)
(* The extractions given to the verification pass.                         *)
(***************************************************************************)
VPad(designator, x, y, width, height, confidence) ==
    [designator |-> designator, x |-> x, y |-> y, width |-> width, height |-> height,
     rotation |-> 0, shape |-> "rectangular", pad_type |-> SMD, drill |-> None,
     confidence |-> confidence]

(* Pads of a dual-row package: pad i of a row at pitch 0.5 mm, the rows at *)
(* x = -2.0 and x = +2.0; a thermal pad at the origin.                     *)
RowPad(i, width) ==
    VPad(ToString(i), IF i % 2 = 1 THEN -20000 ELSE 20000, 5000 * ((i + 1) \div 2) - 12500,
         width, 3000, 95)
ThermalPad(designator) == VPad(designator, 0, 0, 16000, 14000, 90)

PackagePads ==
    UNION {{[i \in 1..n |-> IF i = t THEN ThermalPad(d) ELSE RowPad(i, w)] :
               t \in 0..n, d \in {"EP", "9"}, w \in {3000, 5000}} :
           n \in 0..MaxExtractedPads}

(* Pads for the pitch estimate: positions on one side, near it, and at the *)
(* tolerance; the first pad's size below, at and above the pitch.          *)
PitchPositions ==
    {<<-20000, 7500>>, <<-20000, 2500>>, <<-20000, 2000>>, <<-16000, -2500>>,
     <<-15000, 12500>>}
PitchSizes == {<<5000, 3000>>, <<3000, 5500>>, <<4500, 2000>>, <<3000, 2500>>}

PitchPads ==
    {[i \in 1..Len(ps) |->
        VPad(ToString(i), ps[i][1], ps[i][2],
             IF i = 1 THEN wh[1] ELSE 3000, IF i = 1 THEN wh[2] ELSE 2500, 95)] :
        ps \in SeqUpTo(PitchPositions, MaxPitchPads), wh \in PitchSizes}

ExtractedPadLists ==
    PackagePads \cup PitchPads
    \cup {<< VPad("thermal", 0, 0, 5000, 5000, 90) >> \o ps : ps \in PitchPads}

BaseVia == [x |-> 5500, y |-> -11000, diameter |-> 5000, drill_diameter |-> 2000]
BaseOutline == Some([width |-> 50000, height |-> 40000, line_width |-> DEFAULT_LINE_WIDTH])

ExtractionOf(pads) ==
    [package_type |-> "custom", standard_detected |-> None, units |-> "mm",
     pads |-> pads, vias |-> << BaseVia >>,
     pin1_detected |-> pads # << >>,
     pin1_index |-> IF pads # << >> THEN Some(0) ELSE None,
     outline |-> BaseOutline, overall_confidence |-> 91,
     warnings |-> IF Len(pads) % 2 = 0 THEN << >>
                  ELSE << Warning("", "Dimensions read from a table") >>]

(* ExtractionResponse(success=True, ...) of a finished extraction.         *)
ResponseOf(extraction) ==
    [success |-> TRUE,
     footprint |-> Some([name |-> "SO-8EP", description |-> "Extracted from datasheet image",
                         pads |-> extraction.pads, vias |-> extraction.vias,
                         outline |-> extraction.outline]),
     extraction_result |-> Some(extraction),
     raw_response |-> Some("raw"), error |-> None, model_used |-> "claude-sonnet",
     input_tokens |-> 2000, output_tokens |-> 400]

(* Parsed verdicts of the corrector: a key is absent or null (None) or     *)
(* holds a value; for "confidence", whose get has a default, absent is     *)
(* None and null is confidence_null.                                       *)
Verdict(verified, dims_correct, width, height, dimension_issue, thermal_issue, confidence) ==
    [overall_verified |-> verified, pad_dimensions_correct |-> dims_correct,
     corrected_pad_width |-> width, corrected_pad_height |-> height,
     dimension_issue |-> dimension_issue, pad_count_correct |-> Some(TRUE),
     corrected_pad_count |-> None, thermal_pad_issue |-> thermal_issue,
     confidence |-> confidence, confidence_null |-> FALSE]

(* "confidence": null                                                      *)
NullConfidence(verdict) == [verdict EXCEPT !.confidence = None, !.confidence_null = TRUE]

Verdicts ==
    {Verdict(Some(TRUE), Some(TRUE), None, None, None, None, Some(90)),
     Verdict(Some(FALSE), Some(FALSE), Some(3000), None, Some("width is the pitch"), None, Some(80)),
     Verdict(Some(FALSE), Some(FALSE), Some(3000), Some(8500), Some("width is the pitch"),
             Some("exposed pad missing"), Some(80)),
     Verdict(Some(FALSE), Some(TRUE), None, None, None, Some("exposed pad missing"), Some(70)),
     Verdict(Some(FALSE), Some(TRUE), None, None, None, None, None),
     Verdict(Some(TRUE), Some(FALSE), Some(0), Some(8500), Some("height is the pitch"), None, Some(80)),
     Verdict(Some(FALSE), Some(FALSE), Some(3000), None, None, None, Some(150)),
     Verdict(None, None, None, None, None, None, None),
     Verdict(Some(TRUE), Some(TRUE), Some(3000), None, None, None, Some(90)),
     Verdict(Some(FALSE), Some(TRUE), Some(3000), None, None, None, Some(80)),
     Verdict(Some(TRUE), Some(FALSE), None, None, Some(""), None, Some(85)),
     Verdict(Some(FALSE), Some(FALSE), Some(-3000), None, Some("width is the pitch"), None,
             Some(80)),
     NullConfidence(Verdict(Some(FALSE), Some(FALSE), Some(3000), None,
                            Some("width is the pitch"), None, None)),
     NullConfidence(Verdict(Some(TRUE), Some(TRUE), None, None, None, None, None))}

Outcomes ==
    {[kind |-> "raises", text |-> "Connection error", verdict |-> None],
     [kind |-> "unparsable", text |-> "", verdict |-> None]}
    \cup {[kind |-> "verdict", text |-> "", verdict |-> Some(v)] : v \in Verdicts}

VerificationResults ==
    {VerificationOfVerdict(v) : v \in Verdicts}
    \cup {[VerificationResult(FALSE) EXCEPT
             !.error = Some(Warning("Verification failed: ", "Connection error"))]}

(***************************************************************************)
(* Verification state machine: one call on a finished extraction.          *)
(***************************************************************************)
IdleVerify ==
    /\ result = None
    /\ api_key = FALSE
    /\ vcall = ""
    /\ suspicious = None
    /\ verification = None
    /\ returned = None
    /\ vraised = ""
    /\ calls = 0
    /\ received = None

(* api_key: whether os.environ.get("ANTHROPIC_API_KEY") is a non-empty     *)
(* string.                                                                 *)
InitVerify ==
    /\ \E pads \in ExtractedPadLists : result = Some(ResponseOf(ExtractionOf(pads)))
    /\ api_key \in BOOLEAN
    /\ vcall = ""
    /\ suspicious = None
    /\ verification = None
    /\ returned = None
    /\ vraised = ""
    /\ calls = 0
    /\ received = None

(* suspicious = detect_suspicious_values(extraction)                       *)
DetectSuspicious ==
    /\ vcall = "" /\ ~IsNone(result)
    /\ vcall' = "detect_suspicious_values"
    /\ suspicious' = Some(detect_suspicious_values(Get(Get(result).extraction_result)))
    /\ received' = result
    /\ UNCHANGED <<result, verification, returned, vraised, calls, api_key>>
    /\ UNCHANGED <<genVars, modelVars, apiVars>>

(* apply_corrections(extraction, verification)                             *)
ApplyCorrections(v) ==
    /\ vcall = "" /\ ~IsNone(result)
    /\ vcall' = "apply_corrections"
    /\ verification' = Some(v)
    /\ \E r \in {apply_corrections(Get(Get(result).extraction_result), v)} :
         /\ vraised' = r.raised
         /\ returned' = IF r.raised = "" THEN Some(r.value) ELSE None
    /\ received' = result
    /\ UNCHANGED <<result, suspicious, calls, api_key>>
    /\ UNCHANGED <<genVars, modelVars, apiVars>>

(* verification = verify_extraction(extraction, image_bytes, media_type,   *)
(* client): the value returned is kept in `verification`.                  *)
VerifyExtraction(outcome) ==
    /\ vcall = "" /\ ~IsNone(result)
    /\ vcall' = "verify_extraction"
    /\ verification' = Some(verify_extraction(Get(Get(result).extraction_result), outcome))
    /\ calls' = messages_create_calls(Get(Get(result).extraction_result), outcome)
    /\ received' = result
    /\ UNCHANGED <<result, suspicious, returned, vraised, api_key>>
    /\ UNCHANGED <<genVars, modelVars, apiVars>>

(* result = _run_verification(result, image_bytes, content_type)           *)
RunVerification(outcome) ==
    /\ vcall = "" /\ ~IsNone(result)
    /\ vcall' = "_run_verification"
    /\ \E r \in {_run_verification(Get(result), api_key, outcome)} :
         /\ vraised' = r.raised
         /\ returned' = IF r.raised = "" THEN Some(r.value) ELSE None
         /\ verification' = r.verification
         /\ calls' = r.calls
         /\ received' = Some(r.received)
    /\ UNCHANGED <<result, suspicious, api_key>>
    /\ UNCHANGED <<genVars, modelVars, apiVars>>

NextVerify ==
    \/ DetectSuspicious
    \/ \E v \in VerificationResults : ApplyCorrections(v)
    \/ \E outcome \in Outcomes : VerifyExtraction(outcome)
    \/ \E outcome \in Outcomes : RunVerification(outcome)

(***************************************************************************)
(* main.py: file names                                                     *)
(***************************************************************************)
(* A string is a sequence of characters.  str.isalnum is true of the       *)
(* letters and digits, a non-ASCII letter included; the characters of the  *)
(* names given are letters, a digit, '-' and '_', and characters that are  *)
(* none of these.                                                          *)
Alnum == {"S", "O", "8", "E", "P", "a", "é", "F", "o", "t", "p", "r", "i", "n"}
Characters == {"a", "8", "é", "-", "_", " ", "/", "."}

DEFAULT_FILENAME == << "F", "o", "o", "t", "p", "r", "i", "n", "t" >>

(* `if c.isalnum() or c in "-_"`                                           *)
IsSafeChar_alnumOnly(c) == c \in Alnum
IsSafeChar(c) == c \in Alnum \/ c \in {"-", "_"}

(* The loop of _safe_filename: `safe += c` or `safe += "_"`.               *)
Sanitized(chars) == [i \in 1..Len(chars) |-> IF IsSafeChar(chars[i]) THEN chars[i] ELSE "_"]

(* `return safe or "Footprint"`                                            *)
_safe_filename(chars) ==
    IF Sanitized(chars) # << >> THEN Sanitized(chars) ELSE DEFAULT_FILENAME

(* The names given to _safe_filename.                                      *)
Names == SeqUpTo(Characters, MaxNameLen) \cup {DEFAULT_FILENAME}

(***************************************************************************)
(* main.py: the job store and the endpoints                                *)
(***************************************************************************)
SUPPORTED_FORMATS == {"image/png", "image/jpeg", "image/gif", "image/webp"}
MAX_FILE_SIZE == 10485760

(* str(uuid.uuid4()): the id of the job that is followed; a request may    *)
(* name it before it is created and after it is deleted or expired.        *)
JobIds == {"job-1"}

(* Uploaded files: filename, content type and len(content).                *)
UploadFile(filename, content_type, size) ==
    [filename |-> filename, content_type |-> content_type, size |-> size]
PngFile == UploadFile("drawing.png", "image/png", 2048)
JpegFile == UploadFile("table.jpg", "image/jpeg", MAX_FILE_SIZE)
PdfFile == UploadFile("datasheet.pdf", "application/pdf", 2048)
LargeFile == UploadFile("scan.png", "image/png", MAX_FILE_SIZE + 1)

FileLists ==
    {<< >>, << PngFile >>, << JpegFile >>, << PdfFile >>, << LargeFile >>,
     << PngFile, JpegFile >>, << PngFile, PdfFile >>, << JpegFile, LargeFile >>}

(* Job.__init__                                                            *)
Job ==
    [images |-> << >>, extraction_response |-> None, extracted |-> FALSE,
     confirmed |-> FALSE, confirmed_footprint |-> None, pin1_index |-> None]

(* Job.add_image: append the image; a new image invalidates a previous     *)
(* extraction.                                                             *)
add_image_unconfirms(job, file) ==
    [job EXCEPT !.images = Append(@, file),
                !.extracted = FALSE,
                !.extraction_response = IF job.extracted THEN None ELSE @,
                !.confirmed = FALSE,
                !.confirmed_footprint = None]
add_image(job, file) ==
    [job EXCEPT !.images = Append(@, file),
                !.extracted = FALSE,
                !.extraction_response = IF job.extracted THEN None ELSE @]

Unsupported(file) == file.content_type \notin SUPPORTED_FORMATS
TooLarge(file) == file.size > MAX_FILE_SIZE

(* `for file in files:` of upload_image and add_images_to_job: each file   *)
(* is validated and added in turn, and the first invalid file raises       *)
(* HTTPException(400) out of the loop.  Returns [status, job]: the job as  *)
(* it is when the loop ends or is left.                                    *)
RECURSIVE AddFiles(_, _)
AddFiles(job, files) ==
    IF files = << >> THEN [status |-> 200, job |-> job]
    ELSE IF Unsupported(Head(files)) \/ TooLarge(Head(files))
    THEN [status |-> 400, job |-> job]
    ELSE AddFiles(add_image(job, Head(files)), Tail(files))

(* The job object that add_images_to_job leaves in the store: the loop     *)
(* works on the stored job itself.                                         *)
JobAfterAdd(job, added) == added.job

(* cleanup_expired_jobs: `expired` are the ids whose created_at is before  *)
(* the cutoff at the time of the call.                                     *)
cleanup_expired_jobs(store, expired) == [j \in (DOMAIN store) \ expired |-> store[j]]

Put(store, job_id, job) ==
    [j \in (DOMAIN store) \cup {job_id} |-> IF j = job_id THEN job ELSE store[j]]

(* MODELS[model]                                                           *)
MODELS(model) ==
    CASE model = "haiku" -> "claude-haiku-4-5-20251001"
      [] model = "sonnet" -> "claude-sonnet-4-5-20250929"
      [] OTHER -> model

(* The extractor collaborator: extract_from_bytes_multi and                *)
(* extract_staged_from_bytes_multi return ExtractionResponse(success=      *)
(* False, error=...) for every exception of the call, or the normalized    *)
(* extraction.                                                             *)
FailedExtraction(model_used) ==
    [success |-> FALSE, footprint |-> None, extraction_result |-> None,
     raw_response |-> None, error |-> Some("Claude API error: Connection error"),
     model_used |-> model_used, input_tokens |-> 0, output_tokens |-> 0]

ExtractorResult(run) ==
    LET model_used == IF run.staged THEN "staged (haiku+sonnet)" ELSE MODELS(run.model)
    IN IF run.extractor.kind = "fails" THEN FailedExtraction(model_used)
       ELSE [ResponseOf(run.extractor.extraction) EXCEPT !.model_used = model_used]

(* ExtractResponse(job_id=job_id, success=False, error=str(e))             *)
ExtractFailure(job_id, error) ==
    [job_id |-> job_id, success |-> FALSE, error |-> Some(error), footprint_name |-> None,
     pad_count |-> None, overall_confidence |-> None, warnings |-> << >>,
     model_used |-> None, input_tokens |-> None, output_tokens |-> None,
     footprint |-> None]

(* The pad dictionaries of the response: a pad without its confidence.     *)
PadDict(p) ==
    [designator |-> p.designator, x |-> p.x, y |-> p.y, width |-> p.width,
     height |-> p.height, shape |-> p.shape, pad_type |-> p.pad_type,
     rotation |-> p.rotation, drill |-> p.drill]

(* estimated_cost, a function of the token counts and the model, and the   *)
(* extraction_result dictionary, a copy of fields given here, are left out.*)
_build_extract_response(job_id, res) ==
    IF ~res.success
    THEN [ExtractFailure(job_id, "") EXCEPT
             !.error = res.error, !.model_used = Some(res.model_used),
             !.input_tokens = Some(res.input_tokens),
             !.output_tokens = Some(res.output_tokens)]
    ELSE LET fp == Get(res.footprint)
             er == Get(res.extraction_result)
         IN [job_id |-> job_id, success |-> TRUE, error |-> None,
             footprint_name |-> Some(fp.name), pad_count |-> Some(Len(fp.pads)),
             overall_confidence |-> Some(er.overall_confidence),
             warnings |-> er.warnings,
             model_used |-> Some(res.model_used),
             input_tokens |-> Some(res.input_tokens),
             output_tokens |-> Some(res.output_tokens),
             footprint |-> Some([name |-> fp.name, description |-> fp.description,
                                 pads |-> [i \in 1..Len(fp.pads) |-> PadDict(fp.pads[i])],
                                 vias |-> fp.vias, outline |-> fp.outline])]

(* `job.extraction_response = result; job.extracted = True`                *)
StoreResult_successOnly(job, res) ==
    IF res.success THEN [job EXCEPT !.extraction_response = Some(res), !.extracted = TRUE]
    ELSE job
StoreResult(job, res) == [job EXCEPT !.extraction_response = Some(res), !.extracted = TRUE]

(* `if job.extracted and job.extraction_response:`                          *)
Cached_never(job) == FALSE
Cached(job) == job.extracted /\ ~IsNone(job.extraction_response)

(* `if not job.extracted or not job.extraction_response` and               *)
(* `if not job.extraction_response.success` of confirm_extraction.         *)
Confirmable_extracted(job) == job.extracted /\ ~IsNone(job.extraction_response)
Confirmable(job) ==
    /\ job.extracted /\ ~IsNone(job.extraction_response)
    /\ Get(job.extraction_response).success

(* `if not job.confirmed or not job.confirmed_footprint`                    *)
Generatable(job) == job.confirmed /\ ~IsNone(job.confirmed_footprint)

(* The characters of the footprint names of the extractions.               *)
NameChars(footprint_name) ==
    IF footprint_name = "SO-8EP" THEN << "S", "O", "-", "8", "E", "P" >> ELSE << >>

(* The extractions of the extractor: one whose first pad's width is the    *)
(* pitch (suspicious), one of a single pad (not suspicious).               *)
SuspectPads ==
    << VPad("1", -20000, 7500, 5000, 3000, 95), VPad("2", -20000, 2500, 3000, 2500, 95) >>
PlainPads == << VPad("1", -20000, 7500, 3000, 2500, 95) >>

ExtractorOutcomes ==
    {[kind |-> "fails", extraction |-> ExtractionOf(PlainPads)],
     [kind |-> "succeeds", extraction |-> ExtractionOf(PlainPads)],
     [kind |-> "succeeds", extraction |-> ExtractionOf(SuspectPads)]}

(* The corrector's outcomes of the runs: a failure, an unparsable text, an *)
(* accepting verdict, a correcting verdict, and verdicts whose confidence  *)
(* is 1.5 and null.                                                        *)
JobVerdicts ==
    {Verdict(Some(TRUE), Some(TRUE), None, None, None, None, Some(90)),
     Verdict(Some(FALSE), Some(FALSE), Some(3000), None, Some("width is the pitch"), None, Some(80)),
     Verdict(Some(FALSE), Some(FALSE), Some(3000), None, None, None, Some(150)),
     NullConfidence(Verdict(Some(FALSE), Some(FALSE), Some(3000), None,
                            Some("width is the pitch"), None, None))}
JobOutcomes ==
    {o \in Outcomes : o.kind # "verdict" \/ Get(o.verdict) \in JobVerdicts}

NoCorrector == [kind |-> "raises", text |-> "Connection error", verdict |-> None]

(* The query parameters of an extract request with the outcomes of the     *)
(* collaborators it reaches.                                               *)
ExtractRuns ==
    {[model |-> m, staged |-> s, verify |-> FALSE, extractor |-> x, corrector |-> NoCorrector] :
        m \in {"haiku", "sonnet"}, s \in BOOLEAN, x \in ExtractorOutcomes}
    \cup {[model |-> "sonnet", staged |-> FALSE, verify |-> TRUE, extractor |-> x,
           corrector |-> c] : x \in ExtractorOutcomes, c \in JobOutcomes}

(* A reply: the status and the body of the response, with whether the      *)
(* extractor was invoked, the outcome of the corrector call if one was     *)
(* made, and the exception that the handler caught, if any.                *)
Reply(op, job_id, status, body, invoked, corrector) ==
    [op |-> op, job_id |-> job_id, status |-> status, body |-> body,
     invoked |-> invoked, corrector |-> corrector, raised |-> ""]

Caught(job_id, error, invoked, corrector) ==
    [Reply("extract", job_id, 200, Some(ExtractFailure(job_id, error)), invoked, corrector)
        EXCEPT !.raised = error]

NotFound(op, job_id) == Reply(op, job_id, 404, None, FALSE, "")

IdleApi ==
    /\ jobs = << >>
    /\ reply = None
    /\ raw_name = None
    /\ safe_name = None

(* POST /api/upload                                                        *)
upload_image(files) ==
    /\ \E added \in {AddFiles(Job, files)} :
         IF files = << >> \/ added.status = 400
         THEN /\ reply' = Some(Reply("upload", "", 400, None, FALSE, ""))
              /\ UNCHANGED jobs
         ELSE \E job_id \in JobIds \ DOMAIN jobs :
                 /\ jobs' = Put(jobs, job_id, added.job)
                 /\ reply' = Some(Reply("upload", job_id, 200,
                                        Some([image_count |-> Len(added.job.images)]),
                                        FALSE, ""))
    /\ UNCHANGED <<raw_name, safe_name>>
    /\ UNCHANGED <<genVars, modelVars, verifyVars>>

(* POST /api/upload/{job_id}/add                                           *)
add_images_to_job(job_id, files, expired) ==
    /\ files # << >>
    /\ \E store \in {cleanup_expired_jobs(jobs, expired)} :
         IF job_id \notin DOMAIN store
         THEN /\ jobs' = store
              /\ reply' = Some(NotFound("add_images", job_id))
         ELSE \E added \in {AddFiles(store[job_id], files)} :
                 /\ Len(added.job.images) <= MaxImages
                 /\ jobs' = Put(store, job_id, JobAfterAdd(store[job_id], added))
                 /\ reply' = Some(Reply("add_images", job_id, added.status,
                                        IF added.status = 200
                                        THEN Some([image_count |-> Len(added.job.images)])
                                        ELSE None,
                                        FALSE, ""))
    /\ UNCHANGED <<raw_name, safe_name>>
    /\ UNCHANGED <<genVars, modelVars, verifyVars>>

(* GET /api/extract/{job_id}                                               *)
extract_dimensions(job_id, run, expired) ==
    /\ \E store \in {cleanup_expired_jobs(jobs, expired)} :
         IF job_id \notin DOMAIN store
         THEN /\ jobs' = store
              /\ reply' = Some(NotFound("extract", job_id))
         ELSE IF store[job_id].images = << >>
         THEN /\ jobs' = store
              /\ reply' = Some(Reply("extract", job_id, 400, None, FALSE, ""))
         ELSE IF Cached(store[job_id])
         THEN /\ jobs' = store
              /\ reply' = Some(Reply("extract", job_id, 200,
                                     Some(_build_extract_response(
                                            job_id, Get(store[job_id].extraction_response))),
                                     FALSE, ""))
         ELSE IF ~api_key
         THEN (* FootprintExtractor(...) raises ValueError                 *)
              /\ jobs' = store
              /\ reply' = Some(Caught(job_id, "Anthropic API key required", FALSE, ""))
         ELSE LET extracted == ExtractorResult(run)
                  verifies == run.verify /\ extracted.success
                              /\ ~IsNone(extracted.extraction_result)
              IN \E verified \in {IF verifies
                                  THEN _run_verification(extracted, api_key, run.corrector)
                                  ELSE [raised |-> "", value |-> extracted, calls |-> 0]} :
                    LET corrector == IF verified.calls > 0 THEN run.corrector.kind ELSE ""
                    IN IF verified.raised # ""
                       THEN /\ jobs' = store
                            /\ reply' = Some(Caught(job_id, verified.raised, TRUE, corrector))
                       ELSE /\ jobs' = Put(store, job_id,
                                           StoreResult(store[job_id], verified.value))
                            /\ reply' = Some(Reply("extract", job_id, 200,
                                                   Some(_build_extract_response(
                                                          job_id, verified.value)),
                                                   TRUE, corrector))
    /\ UNCHANGED <<raw_name, safe_name>>
    /\ UNCHANGED <<genVars, modelVars, verifyVars>>

(* POST /api/confirm/{job_id}                                              *)
confirm_extraction(job_id, pin1_index, expired) ==
    /\ \E store \in {cleanup_expired_jobs(jobs, expired)} :
         IF job_id \notin DOMAIN store
         THEN /\ jobs' = store
              /\ reply' = Some(NotFound("confirm", job_id))
         ELSE IF ~Confirmable(store[job_id])
         THEN /\ jobs' = store
              /\ reply' = Some(Reply("confirm", job_id, 400, None, FALSE, ""))
         ELSE /\ jobs' = Put(store, job_id,
                             [store[job_id] EXCEPT
                                 !.confirmed = TRUE,
                                 !.confirmed_footprint =
                                     Get(store[job_id].extraction_response).footprint,
                                 !.pin1_index = pin1_index])
              /\ reply' = Some(Reply("confirm", job_id, 200, Some([confirmed |-> TRUE]),
                                     FALSE, ""))
    /\ UNCHANGED <<raw_name, safe_name>>
    /\ UNCHANGED <<genVars, modelVars, verifyVars>>

(* GET /api/generate/{job_id}: the archive is named after the sanitized    *)
(* footprint name and holds the script generated from the confirmed        *)
(* footprint.                                                              *)
generate_footprint(job_id, expired) ==
    /\ \E store \in {cleanup_expired_jobs(jobs, expired)} :
         /\ jobs' = store
         /\ IF job_id \notin DOMAIN store
            THEN reply' = Some(NotFound("generate", job_id))
            ELSE IF ~Generatable(store[job_id])
            THEN reply' = Some(Reply("generate", job_id, 400, None, FALSE, ""))
            ELSE LET confirmed_footprint == Get(store[job_id].confirmed_footprint)
                 IN reply' = Some(Reply("generate", job_id, 200,
                                        Some([safe_name |->
                                                _safe_filename(NameChars(confirmed_footprint.name)),
                                              footprint |-> confirmed_footprint]),
                                        FALSE, ""))
    /\ UNCHANGED <<raw_name, safe_name>>
    /\ UNCHANGED <<genVars, modelVars, verifyVars>>

(* GET /api/job/{job_id}/status                                            *)
get_job_status(job_id, expired) ==
    /\ \E store \in {cleanup_expired_jobs(jobs, expired)} :
         /\ jobs' = store
         /\ IF job_id \notin DOMAIN store
            THEN reply' = Some(NotFound("status", job_id))
            ELSE reply' = Some(Reply("status", job_id, 200,
                                     Some([extracted |-> store[job_id].extracted,
                                           confirmed |-> store[job_id].confirmed]),
                                     FALSE, ""))
    /\ UNCHANGED <<raw_name, safe_name>>
    /\ UNCHANGED <<genVars, modelVars, verifyVars>>

(* DELETE /api/job/{job_id}                                                *)
delete_job(job_id) ==
    /\ IF job_id \notin DOMAIN jobs
       THEN /\ UNCHANGED jobs
            /\ reply' = Some(NotFound("delete", job_id))
       ELSE /\ jobs' = cleanup_expired_jobs(jobs, {job_id})
            /\ reply' = Some(Reply("delete", job_id, 200, None, FALSE, ""))
    /\ UNCHANGED <<raw_name, safe_name>>
    /\ UNCHANGED <<genVars, modelVars, verifyVars>>

NextJobs ==
    \/ \E files \in FileLists : upload_image(files)
    \/ \E job_id \in JobIds, files \in FileLists, expired \in SUBSET DOMAIN jobs :
          add_images_to_job(job_id, files, expired)
    \/ \E job_id \in JobIds, run \in ExtractRuns, expired \in SUBSET DOMAIN jobs :
          extract_dimensions(job_id, run, expired)
    \/ \E job_id \in JobIds, pin1_index \in {None, Some(0)}, expired \in SUBSET DOMAIN jobs :
          confirm_extraction(job_id, pin1_index, expired)
    \/ \E job_id \in JobIds, expired \in SUBSET DOMAIN jobs : generate_footprint(job_id, expired)
    \/ \E job_id \in JobIds, expired \in SUBSET DOMAIN jobs : get_job_status(job_id, expired)
    \/ \E job_id \in JobIds : delete_job(job_id)

(* raw_name is the argument `name`, safe_name the value returned.          *)
SafeFilename ==
    /\ ~IsNone(raw_name) /\ IsNone(safe_name)
    /\ safe_name' = Some(_safe_filename(Get(raw_name)))
    /\ UNCHANGED <<raw_name, jobs, reply>>
    /\ UNCHANGED <<genVars, modelVars, verifyVars>>

NextNames == SafeFilename

IdleGen ==
    /\ footprint = [name |-> "", description |-> "", pads |-> << >>,
                    vias |-> << >>, outline |-> None]
    /\ budget = 0
    /\ record_id = << >>
    /\ self = 0
    /\ call = ""
    /\ output = << >>
    /\ pc = "idle"
    /\ idx = 0
    /\ results = << >>

vars == <<genVars, modelVars, verifyVars, apiVars>>

(* The generator on footprints of models.py.                               *)
Init == InitGen /\ IdleModels /\ IdleVerify /\ IdleApi
Spec == Init /\ [][Next]_vars

(* Re-emission: the same operations, several emissions per behaviour.      *)
InitReEmit == InitRe /\ IdleModels /\ IdleVerify /\ IdleApi
SpecRe == InitReEmit /\ [][Next]_vars

(* The domain model and the normalizer.                                    *)
InitModels == IdleGen /\ IdleModels /\ IdleVerify /\ IdleApi
SpecModels == InitModels /\ [][NextModels]_vars

(* The verification pass.                                                  *)
InitVerification == IdleGen /\ IdleModels /\ InitVerify /\ IdleApi
SpecVerify == InitVerification /\ [][NextVerify]_vars

(* The job store behind the endpoints; the API key is a setting of the     *)
(* process.                                                                *)
InitJobs ==
    /\ IdleGen /\ IdleModels
    /\ result = None /\ vcall = "" /\ suspicious = None /\ verification = None
    /\ returned = None /\ vraised = "" /\ calls = 0 /\ received = None
    /\ api_key \in BOOLEAN
    /\ jobs = << >> /\ reply = None /\ raw_name = None /\ safe_name = None
SpecJobs == InitJobs /\ [][NextJobs]_vars

(* _safe_filename on names.                                                *)
InitNames ==
    /\ IdleGen /\ IdleModels /\ IdleVerify
    /\ jobs = << >> /\ reply = None
    /\ raw_name \in {Some(n) : n \in Names}
    /\ safe_name = None
SpecNames == InitNames /\ [][NextNames]_vars

(***************************************************************************)
(* Reading an emitted text back: its records and their keys                *)
(***************************************************************************)
RECURSIVE SortedSeq(_)
SortedSeq(S) ==
    IF S = {} THEN << >>
    ELSE LET m == CHOOSE x \in S : \A y \in S : x <= y
         IN << m >> \o SortedSeq(S \ {m})

(* The lines of the record whose tag is line i, up to the blank line.      *)
RecordAt(t, i) ==
    LET e == CHOOSE j \in i..Len(t) :
                /\ t[j].f = "blank"
                /\ \A m \in i..(j - 1) : t[m].f # "blank"
    IN SubSeq(t, i, e - 1)

Records(t) ==
    LET ps == SortedSeq({i \in 1..Len(t) : t[i].f = "tag"})
    IN [n \in 1..Len(ps) |-> RecordAt(t, ps[n])]

Kind(r) == r[1].k
OfKind(t, tag) == SelectSeq(Records(t), LAMBDA r : Kind(r) = tag)
HasKey(r, key) == \E i \in 1..Len(r) : r[i].k = key
Val(r, key) == r[CHOOSE i \in 1..Len(r) : r[i].k = key]

(* The RecordID values of a text, in output order.                         *)
RecordIDs(t) ==
    LET ls == SelectSeq(t, LAMBDA l : l.k = "RecordID")
    IN [i \in 1..Len(ls) |-> ls[i].n]

IsCount(ids, n) == Len(ids) = n /\ \A i \in 1..n : ids[i] = i

Done == 1..Len(results)
Text(e) == results[e].text
Pads == footprint.pads
Vias == footprint.vias
OutlinePresent == ~IsNone(footprint.outline)
Abs(v) == IF v < 0 THEN -v ELSE v

(***************************************************************************)
(* C1 (as claimed): the RecordIDs of a generate_pcblib emission are        *)
(* 1..N with N = 1 + pads + vias + 5 when an outline is present, + 0       *)
(* when not.                                                               *)
(***************************************************************************)
C1_RecordIdsAsClaimed ==
    \A e \in Done : results[e].call = "generate_pcblib" =>
        IsCount(RecordIDs(Text(e)),
                1 + Len(Pads) + Len(Vias) + (IF OutlinePresent THEN 5 ELSE 0))

(***************************************************************************)
(* C1 (amended): the RecordIDs of a generate_pcblib emission, in output    *)
(* order, are exactly 1..N with N = 1 + pads + vias, + 4 when an outline   *)
(* is present, + 1 more when an outline is present and the pad list is     *)
(* not empty.                                                              *)
(***************************************************************************)
C1_RecordIds ==
    \A e \in Done : results[e].call = "generate_pcblib" =>
        IsCount(RecordIDs(Text(e)),
                1 + Len(Pads) + Len(Vias)
                  + (IF OutlinePresent THEN 4 + (IF Len(Pads) > 0 THEN 1 ELSE 0) ELSE 0))

C1_Witness ==
    \E e \in Done :
        /\ results[e].call = "generate_pcblib"
        /\ OutlinePresent /\ Len(Pads) = 0 /\ Len(Vias) >= 1
        /\ Len(RecordIDs(Text(e))) = 5 + Len(Vias)

(***************************************************************************)
(* C2: any two emissions of the same Footprint are the same text, whether  *)
(* made by generate_pcblib or by generate() on one instance.               *)
(***************************************************************************)
C2_ByteIdentical ==
    \A a, b \in Done : Text(a) = Text(b)

(***************************************************************************)
(* C3: every emission is header, one [Component], the [Pad] records in     *)
(* pad-list order, the [Via] records in via-list order, then only with an  *)
(* outline the [Track] records and after them the [Arc], then the footer.  *)
(***************************************************************************)
C3_RecordOrder ==
    \A e \in Done :
        LET t == Text(e)
            recs == Records(t)
            np == Len(Pads)
            nv == Len(Vias)
        IN /\ t[1].k = "PCB Library Document" /\ t[1].f # "tag"
           /\ t[Len(t)].k = "End PCB Library"
           /\ Len(recs) >= 1 + np + nv
           /\ Kind(recs[1]) = "[Component]"
           /\ \A i \in 1..np :
                /\ Kind(recs[1 + i]) = "[Pad]"
                /\ Val(recs[1 + i], "Designator").s = Pads[i].designator
                /\ Val(recs[1 + i], "X").n = Round3(Pads[i].x)
                /\ Val(recs[1 + i], "Y").n = Round3(Pads[i].y)
           /\ \A i \in 1..nv :
                /\ Kind(recs[1 + np + i]) = "[Via]"
                /\ Val(recs[1 + np + i], "X").n = Round3(Vias[i].x)
                /\ Val(recs[1 + np + i], "Y").n = Round3(Vias[i].y)
           /\ \A i \in (2 + np + nv)..Len(recs) :
                /\ OutlinePresent
                /\ Kind(recs[i]) \in {"[Track]", "[Arc]"}
                /\ Kind(recs[i]) = "[Arc]" => i = Len(recs)

C3_Witness ==
    \E e \in Done :
        /\ Len(Pads) = 2 /\ Pads[1] # Pads[2]
        /\ Len(Vias) = 2 /\ Vias[1] # Vias[2]
        /\ OutlinePresent
        /\ Len(OfKind(Text(e), "[Arc]")) = 1

(***************************************************************************)
(* C4: a pad record carries HoleSize and DrillType if and only if the pad  *)
(* is ThroughHole and carries a Drill.                                     *)
(***************************************************************************)
C4_DrillBlock ==
    \A e \in Done :
        LET prs == OfKind(Text(e), "[Pad]") IN
        /\ Len(prs) = Len(Pads)
        /\ \A i \in 1..Len(Pads) :
            /\ HasKey(prs[i], "HoleSize") <=> HasKey(prs[i], "DrillType")
            /\ HasKey(prs[i], "HoleSize") <=>
                  (Pads[i].pad_type = THROUGH_HOLE /\ ~IsNone(Pads[i].drill))

C4_Witness ==
    \E e \in Done : \E i, j \in 1..Len(Pads) :
        /\ Pads[i].pad_type = SMD /\ ~IsNone(Pads[i].drill)
        /\ Pads[j].pad_type = THROUGH_HOLE /\ ~IsNone(Pads[j].drill)
        /\ HasKey(OfKind(Text(e), "[Pad]")[j], "HoleSize")

(***************************************************************************)
(* C5 (as claimed): in a drill block SlotLength and DrillType=Slot are     *)
(* emitted exactly when the drill kind is Slot and a slot length is        *)
(* present; otherwise DrillType=Round without SlotLength.                  *)
(***************************************************************************)
DrillBlockIs(r, drill, slot) ==
    /\ HasKey(r, "SlotLength") <=> slot
    /\ Val(r, "DrillType").s = (IF slot THEN "Slot" ELSE "Round")
    /\ slot => Val(r, "SlotLength").n = Round3(Get(drill.slot_length))

C6_PadLayer ==
    \A e \in Done :
        LET prs == OfKind(Text(e), "[Pad]") IN
        /\ Len(prs) = Len(Pads)
        /\ \A i \in 1..Len(Pads) :
            Val(prs[i], "Layer").s =
                (IF Pads[i].pad_type = THROUGH_HOLE THEN "MultiLayer" ELSE "Top Layer")

C6_Witness ==
    \E e \in Done : \E i, j \in 1..Len(Pads) :
        /\ Pads[i].pad_type = SMD /\ ~IsNone(Pads[i].drill)
        /\ Pads[j].pad_type = THROUGH_HOLE /\ IsNone(Pads[j].drill)
        /\ Len(OfKind(Text(e), "[Pad]")) = 2

(***************************************************************************)
(* C7: with an outline, the [Arc] is placed (0.5 mm off on each axis)      *)
(* relative to the first pad whose designator is "1", or to the first pad  *)
(* when no pad has that designator; with an empty pad list there is no     *)
(* [Arc] while the four [Track] records are still emitted.                 *)
(***************************************************************************)
NearPad(arc, pad) ==
    /\ Val(arc, "X").n \in {Round3(pad.x - HalfMm), Round3(pad.x + HalfMm)}
    /\ Val(arc, "Y").n \in {Round3(pad.y - HalfMm), Round3(pad.y + HalfMm)}

C7_Pin1Choice ==
    \A e \in Done : OutlinePresent =>
        LET arcs == OfKind(Text(e), "[Arc]")
            ones == {i \in 1..Len(Pads) : Pads[i].designator = "1"}
        IN /\ Len(OfKind(Text(e), "[Track]")) = 4
           /\ Len(Pads) = 0 => Len(arcs) = 0
           /\ Len(Pads) > 0 =>
                /\ Len(arcs) = 1
                /\ ones # {} =>
                     \E i \in ones : (\A j \in ones : i <= j) /\ NearPad(arcs[1], Pads[i])
                /\ ones = {} => NearPad(arcs[1], Pads[1])

C7_Witness ==
    \E e \in Done :
        /\ OutlinePresent
        /\ Len(Pads) = 2
        /\ Pads[1].designator # "1" /\ Pads[2].designator = "1"
        /\ Pads[1].x # Pads[2].x
        /\ Len(OfKind(Text(e), "[Arc]")) = 1

(***************************************************************************)
(* C8: the indicator centre is the chosen pad's centre moved 0.5 mm away   *)
(* from the origin on each axis by the sign of the pad coordinate, so for  *)
(* a pad not on an axis it is farther from the origin on both axes.        *)
(***************************************************************************)
C8_IndicatorOffset ==
    \A e \in Done :
        LET arcs == OfKind(Text(e), "[Arc]") IN
        \A a \in 1..Len(arcs) :
            LET pad == Pads[_find_pin1(Pads)]
                ax == Val(arcs[a], "X").n
                ay == Val(arcs[a], "Y").n
            IN /\ pad.x < 0 => ax = Round3(pad.x - HalfMm)
               /\ pad.x > 0 => ax = Round3(pad.x + HalfMm)
               /\ pad.y > 0 => ay = Round3(pad.y + HalfMm)
               /\ pad.y < 0 => ay = Round3(pad.y - HalfMm)
               /\ (pad.x # 0 /\ pad.y # 0) =>
                    /\ Abs(ax) > Abs(Round3(pad.x))
                    /\ Abs(ay) > Abs(Round3(pad.y))

C8_Witness ==
    \E e \in Done :
        /\ Len(OfKind(Text(e), "[Arc]")) = 1
        /\ Pads[_find_pin1(Pads)].x < 0
        /\ Pads[_find_pin1(Pads)].y > 0

(***************************************************************************)
(* C9: with an outline exactly four [Track] records visit the corners      *)
(* bottom-left, bottom-right, top-right, top-left of the box of            *)
(* half-width width/2 and half-height height/2, each ending where the next *)
(* starts and the fourth where the first starts; without an outline there  *)
(* is no [Track] and no [Arc].                                             *)
(***************************************************************************)
TracksClosedBox(t) ==
    LET trs == OfKind(t, "[Track]")
        o == Get(footprint.outline)
        hw == Round3(o.width \div 2)
        hh == Round3(o.height \div 2)
        P(i, key) == Val(trs[i], key).n
    IN /\ Len(trs) = 4
       /\ <<P(1, "X1"), P(1, "Y1")>> = <<-hw, -hh>>
       /\ <<P(2, "X1"), P(2, "Y1")>> = <<hw, -hh>>
       /\ <<P(3, "X1"), P(3, "Y1")>> = <<hw, hh>>
       /\ <<P(4, "X1"), P(4, "Y1")>> = <<-hw, hh>>
       /\ \A i \in 1..4 :
            <<P(i, "X2"), P(i, "Y2")>> = <<P((i % 4) + 1, "X1"), P((i % 4) + 1, "Y1")>>

ArcsFollowTracks(t, count) ==
    LET recs == Records(t) IN
    /\ Len(OfKind(t, "[Arc]")) = count
    /\ \A i, j \in 1..Len(recs) :
        (Kind(recs[i]) = "[Track]" /\ Kind(recs[j]) = "[Arc]") => i < j

NoTrackNoArc(t) ==
    Len(OfKind(t, "[Track]")) = 0 /\ Len(OfKind(t, "[Arc]")) = 0

(* C9 (as claimed): ... and the tracks are followed by exactly one [Arc].  *)
C9_OutlineAsClaimed ==
    \A e \in Done :
        IF OutlinePresent
        THEN TracksClosedBox(Text(e)) /\ ArcsFollowTracks(Text(e), 1)
        ELSE NoTrackNoArc(Text(e))

(* C9 (amended): ... and the tracks are followed by exactly one [Arc]      *)
(* when the pad list is not empty and by no [Arc] when it is empty.        *)
C9_Outline ==
    \A e \in Done :
        IF OutlinePresent
        THEN /\ TracksClosedBox(Text(e))
             /\ ArcsFollowTracks(Text(e), IF Len(Pads) > 0 THEN 1 ELSE 0)
        ELSE NoTrackNoArc(Text(e))

C9_Witness ==
    \E e \in Done :
        /\ OutlinePresent
        /\ Len(Pads) > 0
        /\ Len(OfKind(Text(e), "[Track]")) = 4
        /\ Kind(Records(Text(e))[Len(Records(Text(e)))]) = "[Arc]"

(***************************************************************************)
(* C10: what construction refuses, and what the normalizer lets through    *)
(***************************************************************************)
SeqAll(seq, Ok(_)) == \A i \in 1..Len(seq) : Ok(seq[i])
SeqAny(seq, Is(_)) == \E i \in 1..Len(seq) : Is(seq[i])

ConfidenceInRange(p) == p.confidence >= 0 /\ p.confidence <= 100
BadPad(p) == p.width <= 0 \/ p.height <= 0 \/ p.designator = "" \/ ~ConfidenceInRange(p)
BadDrill(d) == d.diameter <= 0 \/ (~IsNone(d.slot_length) /\ Get(d.slot_length) <= 0)
BadVia(v) == v.diameter <= 0 \/ v.drill_diameter <= 0
BadOutline(o) == o.width <= 0 \/ o.height <= 0

AnyBad(objs) ==
    \/ SeqAny(objs.pads, BadPad)
    \/ SeqAny(objs.drills, BadDrill)
    \/ SeqAny(objs.vias, BadVia)
    \/ SeqAny(objs.outlines, BadOutline)

Normalized == phase = "normalized"
Returned == phase = "normalized" /\ raised = ""
RawPads == DictGet(Get(response).pads, << >>)
RawVias == DictGet(Get(response).vias, << >>)
NormPads == Get(norm).footprint.pads
NormVias == Get(norm).footprint.vias
NormResult == Get(norm).extraction_result

IsNum(field) == ~IsNone(field) /\ Get(field).t = "num"
IsStr(field) == ~IsNone(field) /\ Get(field).t = "str"
NumOr(field, default) == IF IsNum(field) THEN Get(field).v ELSE default

(* The response is an object whose outline and pin1_location are objects   *)
(* or absent and whose overall confidence is a number in [0,1] or absent:  *)
(* whatever is malformed in it is a field of a pad, via or outline entry.  *)
OnlyEntryFieldsMalformed ==
    LET r == Get(response) IN
    /\ IsNone(r.outline) \/ ~Get(r.outline).isnull
    /\ IsNone(r.pin1_location) \/ ~Get(r.pin1_location).isnull
    /\ IsNone(r.overall_confidence)
         \/ (IsNum(r.overall_confidence) /\ Get(r.overall_confidence).v \in 0..100)

(* C11: the normalizer never raises for a malformed field of a pad, via or *)
(* outline entry: it returns a Footprint and an ExtractionResult in which  *)
(* a numeric field that is missing, null or not a number has its default.  *)
C11_NeverRaises ==
    (Normalized /\ OnlyEntryFieldsMalformed) =>
        /\ raised = ""
        /\ ~IsNone(norm)
        /\ Len(NormPads) = Len(RawPads)
        /\ \A i \in 1..Len(RawPads) : NormPads[i].width = NumOr(RawPads[i].width, 0)
        /\ Len(NormVias) = Len(RawVias)
        /\ \A i \in 1..Len(RawVias) :
             /\ NormVias[i].x = NumOr(RawVias[i].x, 0)
             /\ NormVias[i].diameter = NumOr(RawVias[i].outer_diameter, DEFAULT_VIA_DIAMETER)

(***************************************************************************)
(* C12: the shape and pad_type tokens of a pad entry                       *)
(***************************************************************************)
ShapeTokens == {"rectangular", "round", "oval", "rounded_rectangle"}

(* C12 (as claimed): the shape token rectangular / round / oval /          *)
(* rounded_rectangle gives the shape of that name and every other or       *)
(* missing token Rectangular; the pad_type token "th" gives ThroughHole    *)
(* and every other or missing token SurfaceMount.                          *)
C12_TokensAsClaimed ==
    Returned =>
        \A i \in 1..Len(RawPads) :
            LET e == RawPads[i] IN
            /\ NormPads[i].shape =
                 IF IsStr(e.shape) /\ Get(e.shape).s \in ShapeTokens
                 THEN Get(e.shape).s ELSE "rectangular"
            /\ NormPads[i].pad_type =
                 IF IsStr(e.pad_type) /\ Get(e.pad_type).s = "th"
                 THEN THROUGH_HOLE ELSE SMD

(* C12 (amended): the tokens are compared after lower-casing: a shape      *)
(* token that lower-cases to rectangular / round / oval /                  *)
(* rounded_rectangle gives the shape of that name and every other or       *)
(* missing string Rectangular; a pad_type token that lower-cases to "th"   *)
(* gives ThroughHole and every other or missing string SurfaceMount.       *)
C12_Tokens ==
    Returned =>
        \A i \in 1..Len(RawPads) :
            LET e == RawPads[i]
                shape_tok == IF IsNone(e.shape) THEN "rectangular" ELSE Lower(Get(e.shape).s)
                type_tok == IF IsNone(e.pad_type) THEN "smd" ELSE Lower(Get(e.pad_type).s)
            IN /\ IsNone(e.shape) \/ IsStr(e.shape)
               /\ IsNone(e.pad_type) \/ IsStr(e.pad_type)
               /\ NormPads[i].shape =
                    IF shape_tok \in ShapeTokens THEN shape_tok ELSE "rectangular"
               /\ NormPads[i].pad_type = IF type_tok = "th" THEN THROUGH_HOLE ELSE SMD

C12_Witness ==
    /\ Returned
    /\ \E i \in 1..Len(RawPads) :
         /\ RawPads[i].shape = Some(JStr("oval"))
         /\ RawPads[i].pad_type = None
         /\ NormPads[i].shape = "oval"
         /\ NormPads[i].pad_type = SMD

(***************************************************************************)
(* C13: the drill of a normalized pad                                      *)
(***************************************************************************)
HasField(field) == ~IsNone(field)
NonZero(field) == IsNum(field) /\ Get(field).v # 0

(* C13 (as claimed): a normalized pad carries a Drill iff its mount type   *)
(* is ThroughHole and the entry has a drill-diameter field; the Drill is a *)
(* Slot exactly when the entry has a slot-length field; no SurfaceMount    *)
(* pad carries a Drill and no Slot drill lacks a slot length.              *)
C13_DrillAsClaimed ==
    Returned =>
        \A i \in 1..Len(RawPads) :
            LET e == RawPads[i]
                pad == NormPads[i]
            IN /\ ~IsNone(pad.drill) <=>
                    (pad.pad_type = THROUGH_HOLE /\ HasField(e.drill_diameter))
               /\ ~IsNone(pad.drill) =>
                    (Get(pad.drill).drill_type = DRILL_TYPE_SLOT
                        <=> HasField(e.drill_slot_length))
               /\ pad.pad_type = SMD => IsNone(pad.drill)
               /\ (~IsNone(pad.drill) /\ Get(pad.drill).drill_type = DRILL_TYPE_SLOT)
                    => ~IsNone(Get(pad.drill).slot_length)

(* C13 (amended): a normalized pad carries a Drill iff its mount type is   *)
(* ThroughHole and the entry's drill diameter is present and not zero (not *)
(* null); the Drill is a Slot exactly when the entry's slot length is      *)
(* present and not zero, and Round otherwise; no SurfaceMount pad carries  *)
(* a Drill and no Slot drill lacks a slot length.                          *)
C13_Drill ==
    Returned =>
        \A i \in 1..Len(RawPads) :
            LET e == RawPads[i]
                pad == NormPads[i]
            IN /\ ~IsNone(pad.drill) <=>
                    (pad.pad_type = THROUGH_HOLE /\ NonZero(e.drill_diameter))
               /\ ~IsNone(pad.drill) =>
                    /\ Get(pad.drill).diameter = Get(e.drill_diameter).v
                    /\ Get(pad.drill).drill_type =
                         IF NonZero(e.drill_slot_length)
                         THEN DRILL_TYPE_SLOT ELSE DRILL_TYPE_ROUND
               /\ pad.pad_type = SMD => IsNone(pad.drill)
               /\ (~IsNone(pad.drill) /\ Get(pad.drill).drill_type = DRILL_TYPE_SLOT)
                    => (~IsNone(Get(pad.drill).slot_length)
                        /\ Get(Get(pad.drill).slot_length) # 0)

C13_Witness ==
    /\ Returned
    /\ \E i \in 1..Len(RawPads) :
         /\ RawPads[i].pad_type = Some(JStr("th"))
         /\ RawPads[i].drill_diameter = Some(JNum(9000))
         /\ RawPads[i].drill_slot_length = Some(JNum(24500))
         /\ NormPads[i].drill = Some([diameter |-> 9000, slot_length |-> Some(24500),
                                      drill_type |-> DRILL_TYPE_SLOT])

(***************************************************************************)
(* C14: pin-1 resolution                                                   *)
(***************************************************************************)
(* The declared Pin-1 designator as a string, "" when none is declared.    *)
DeclaredPin1 ==
    LET loc == Get(response).pin1_location IN
    IF IsNone(loc) \/ IsNone(Get(loc).designator) THEN ""
    ELSE PyStr(Get(Get(loc).designator))

Matches(pads, designator) == {i \in 1..Len(pads) : pads[i].designator = designator}

(* C14: pin1_detected is true iff pin1_index is not None; then pin1_index  *)
(* is the smallest (0-based) index of a pad whose designator equals the    *)
(* declared Pin-1 designator as a string; when no pad matches or no        *)
(* designator is declared pin1_index is None and pin1_detected false, with *)
(* no fallback to index 0; a declared designator that a pad matches is     *)
(* found.                                                                  *)
C14_Pin1 ==
    Returned =>
        LET er == NormResult
            m == Matches(er.pads, DeclaredPin1)
        IN /\ er.pin1_detected <=> ~IsNone(er.pin1_index)
           /\ ~IsNone(er.pin1_index) =>
                /\ DeclaredPin1 # ""
                /\ Get(er.pin1_index) + 1 \in m
                /\ \A j \in m : Get(er.pin1_index) + 1 <= j
           /\ (DeclaredPin1 = "" \/ m = {}) =>
                (IsNone(er.pin1_index) /\ ~er.pin1_detected)
           /\ (DeclaredPin1 # "" /\ m # {}) => ~IsNone(er.pin1_index)

C14_Witness ==
    /\ Returned
    /\ DeclaredPin1 = "1"
    /\ Len(NormResult.pads) >= 2
    /\ NormResult.pads[1].designator # "1"
    /\ NormResult.pin1_index = Some(1)
    /\ NormResult.pin1_detected

(***************************************************************************)
(* C15: confidences after normalization                                    *)
(***************************************************************************)
(* C15: each pad has the confidence of its entry, and 1.0 when the entry   *)
(* has none; the extraction result has the response's overall_confidence,  *)
(* and 0.5 when the response has none.                                     *)
C15_Confidence ==
    Returned =>
        /\ \A i \in 1..Len(RawPads) :
             NormPads[i].confidence = NumOr(RawPads[i].confidence, DEFAULT_PAD_CONFIDENCE)
        /\ NormResult.overall_confidence.v =
             NumOr(Get(response).overall_confidence, DEFAULT_OVERALL_CONFIDENCE)

(***************************************************************************)
(* Reading a verification call back                                        *)
(***************************************************************************)
Extraction == Get(Get(result).extraction_result)
Detected == vcall = "detect_suspicious_values"
Suspicious == Get(suspicious)
Flagged(reason) == \E i \in 1..Len(Suspicious.reasons) : Suspicious.reasons[i] = reason
IsThermal(pad) == pad.designator \in {"EP", "9", "thermal"}
NoThermal(pads) == \A i \in 1..Len(pads) : ~IsThermal(pads[i])

(* C16: an extraction with at least 8 pads, none with a thermal alias as   *)
(* designator, gets needs_verification = true with the missing-thermal-pad *)
(* reason, whatever the positions and sizes of its pads.                   *)
C16_MissingThermal ==
    (Detected /\ Len(Extraction.pads) >= 8 /\ NoThermal(Extraction.pads)) =>
        (Suspicious.needs_verification /\ Flagged(REASON_THERMAL))

C16_Witness ==
    /\ Detected
    /\ Len(Extraction.pads) = 8
    /\ NoThermal(Extraction.pads)
    /\ Suspicious.needs_verification
    /\ Suspicious.reasons = << REASON_THERMAL >>

(***************************************************************************)
(* C17: pad / pitch confusion                                              *)
(***************************************************************************)
Signal == SelectSeq(Extraction.pads, LAMBDA p : ~IsThermal(p))
InOrder == SortedPads(Signal)

(* Neighbours in (x, y) order of near-equal X, with their |dy|.            *)
SameSide(i) == AbsDiff(InOrder[i].x, InOrder[i + 1].x) < 5000
Dy(i) == AbsDiff(InOrder[i].y, InOrder[i + 1].y)

RECURSIVE SumDy(_)
SumDy(S) ==
    IF S = {} THEN 0
    ELSE LET i == CHOOSE j \in S : TRUE IN Dy(i) + SumDy(S \ {i})

(* dimension / (average of the samples) lies in [0.90, 1.10]               *)
RatioInBand(dimension, samples) ==
    LET total == SumDy(samples)
        count == Cardinality(samples)
    IN /\ count > 0 /\ total > 0
       /\ 90 * total <= 100 * dimension * count
       /\ 100 * dimension * count <= 110 * total

ConfusedOver(samples) ==
    /\ Len(Signal) >= 2
    /\ RatioInBand(Signal[1].width, samples) \/ RatioInBand(Signal[1].height, samples)

(* C17 (as claimed): pad/pitch confusion is flagged exactly when the first *)
(* signal pad's width or height divided by the estimated pitch lies in     *)
(* [0.90, 1.10], the estimated pitch being the average of the consecutive  *)
(* |dy| of the signal pads of near-equal X.                                *)
C17_ConfusionAsClaimed ==
    Detected =>
        (Flagged(REASON_PITCH)
            <=> ConfusedOver({i \in 1..(Len(InOrder) - 1) : SameSide(i)}))

(* C17 (amended): ... the estimated pitch being the average of those |dy|  *)
(* that exceed 0.1 mm, taken between signal pads adjacent in (x, y) order  *)
(* whose X differ by less than 0.5 mm; no flag when there is no such       *)
(* sample.                                                                 *)
C17_Confusion ==
    Detected =>
        LET samples == {i \in 1..(Len(InOrder) - 1) : SameSide(i) /\ Dy(i) > 1000}
        IN /\ Flagged(REASON_PITCH) <=> ConfusedOver(samples)
           /\ Flagged(REASON_PITCH) =>
                (Suspicious.needs_verification
                 /\ Suspicious.likely_pitch
                      = Some(<< SumDy(samples), Cardinality(samples) >>))

(* Two signal pads at (-2.0, 0.75) and (-2.0, 0.25) with width 0.5.        *)
C17_Witness ==
    /\ Detected
    /\ Len(Extraction.pads) = 2
    /\ <<Extraction.pads[1].x, Extraction.pads[1].y>> = <<-20000, 7500>>
    /\ <<Extraction.pads[2].x, Extraction.pads[2].y>> = <<-20000, 2500>>
    /\ Extraction.pads[1].width = 5000
    /\ Flagged(REASON_PITCH)
    /\ Suspicious.likely_pitch = Some(<< 5000, 1 >>)

(***************************************************************************)
(* C18: a failed corrector call                                            *)
(***************************************************************************)
Verified == vcall = "_run_verification"
Verification == Get(verification)
CorrectorFailed == Verified /\ ~IsNone(verification) /\ ~IsNone(Verification.error)

(* C18: when the corrector call raises or its response cannot be parsed,   *)
(* the response stays successful, the pads, vias, outline, pin-1 data and  *)
(* overall confidence are those of the original extraction, and exactly    *)
(* one warning is appended to the prior warnings.                          *)
C18_Inconclusive ==
    CorrectorFailed =>
        /\ vraised = ""
        /\ ~IsNone(returned)
        /\ LET r == Get(returned)
               e == Get(r.extraction_result)
           IN /\ r.success
              /\ r.footprint = Get(result).footprint
              /\ e.pads = Extraction.pads
              /\ e.vias = Extraction.vias
              /\ e.outline = Extraction.outline
              /\ e.pin1_detected = Extraction.pin1_detected
              /\ e.pin1_index = Extraction.pin1_index
              /\ e.overall_confidence = Extraction.overall_confidence
              /\ Len(e.warnings) = Len(Extraction.warnings) + 1
              /\ SubSeq(e.warnings, 1, Len(Extraction.warnings)) = Extraction.warnings
              /\ e.warnings[Len(e.warnings)] =
                   Warning("Verification skipped: ", Get(Verification.error))

C18_Witness ==
    /\ CorrectorFailed
    /\ Get(Verification.error).text = "Could not parse verification response"
    /\ Len(Extraction.warnings) = 1
    /\ Len(Get(Get(returned).extraction_result).warnings) = 2

(***************************************************************************)
(* C19, C20: apply_corrections                                             *)
(***************************************************************************)
Applied == vcall = "apply_corrections"
NoDimensionCorrection(v) ==
    /\ ~v.pad_dimensions_corrected
    /\ IsNone(v.corrected_pad_width)
    /\ IsNone(v.corrected_pad_height)

IssueWarnings(v) ==
    (IF v.dimension_issue \notin {None, Some("")}
     THEN << Warning("Corrected: ", Get(v.dimension_issue)) >> ELSE << >>)
    \o (IF v.thermal_pad_issue \notin {None, Some("")}
        THEN << Warning("Thermal pad: ", Get(v.thermal_pad_issue)) >> ELSE << >>)

CorrectionFrame(r) ==
    /\ Len(r.pads) = Len(Extraction.pads)
    /\ \A i \in 1..Len(r.pads) :
         LET old == Extraction.pads[i]
             new == r.pads[i]
         IN IF IsThermal(old) THEN new = old
            ELSE /\ new.designator = old.designator
                 /\ new.x = old.x /\ new.y = old.y
                 /\ new.rotation = old.rotation
                 /\ new.shape = old.shape
                 /\ new.pad_type = old.pad_type
                 /\ new.drill = old.drill
    /\ r.vias = Extraction.vias
    /\ r.outline = Extraction.outline
    /\ r.pin1_detected = Extraction.pin1_detected
    /\ r.pin1_index = Extraction.pin1_index

(* C20 (as claimed): when a dimension correction is applied, every         *)
(* non-thermal pad has width = corrected width if present else its         *)
(* original width, and height likewise; the rest is the frame above.       *)
C20_CorrectionAsClaimed ==
    (Applied /\ Verification.pad_dimensions_corrected /\ vraised = "") =>
        LET r == Get(returned) IN
        /\ CorrectionFrame(r)
        /\ \A i \in 1..Len(r.pads) :
             ~IsThermal(Extraction.pads[i]) =>
                /\ r.pads[i].width =
                     IF ~IsNone(Verification.corrected_pad_width)
                     THEN Get(Verification.corrected_pad_width)
                     ELSE Extraction.pads[i].width
                /\ r.pads[i].height =
                     IF ~IsNone(Verification.corrected_pad_height)
                     THEN Get(Verification.corrected_pad_height)
                     ELSE Extraction.pads[i].height

(* C20 (amended): when a dimension correction is applied and the           *)
(* verification's confidence is a number within [0,1], every non-thermal   *)
(* pad has width = corrected width if present and not zero else its        *)
(* original width, and height likewise, with the frame above; with a       *)
(* confidence that is null or outside [0,1] apply_corrections raises a     *)
(* validation error.                                                       *)
C20_Correction ==
    (Applied /\ Verification.pad_dimensions_corrected) =>
        IF ~Verification.confidence_is_none /\ Verification.confidence \in 0..100
        THEN /\ vraised = ""
             /\ ~IsNone(returned)
             /\ CorrectionFrame(Get(returned))
             /\ \A i \in 1..Len(Extraction.pads) :
                  ~IsThermal(Extraction.pads[i]) =>
                     /\ Get(returned).pads[i].width =
                          IF Verification.corrected_pad_width \notin {None, Some(0)}
                          THEN Get(Verification.corrected_pad_width)
                          ELSE Extraction.pads[i].width
                     /\ Get(returned).pads[i].height =
                          IF Verification.corrected_pad_height \notin {None, Some(0)}
                          THEN Get(Verification.corrected_pad_height)
                          ELSE Extraction.pads[i].height
        ELSE vraised = "ValidationError" /\ IsNone(returned)

C20_Witness ==
    /\ Applied
    /\ Verification.pad_dimensions_corrected
    /\ Verification.corrected_pad_width = Some(3000)
    /\ Verification.corrected_pad_height = None
    /\ ~IsNone(returned)
    /\ \E i, j \in 1..Len(Extraction.pads) :
         /\ IsThermal(Extraction.pads[i])
         /\ Get(returned).pads[i] = Extraction.pads[i]
         /\ ~IsThermal(Extraction.pads[j])
         /\ Extraction.pads[j].width = 5000
         /\ Get(returned).pads[j].width = 3000
         /\ Get(returned).pads[j].height = Extraction.pads[j].height

(***************************************************************************)
(* C21: warnings accumulate                                                *)
(***************************************************************************)
IsPrefix(a, b) == Len(a) <= Len(b) /\ \A i \in 1..Len(a) : b[i] = a[i]

(* The extraction that the call delivered.                                 *)
ResultingExtraction ==
    IF Applied THEN Get(returned) ELSE Get(Get(returned).extraction_result)

(* C21: after apply_corrections and after _run_verification, the warning   *)
(* list of the resulting extraction starts with the warning list of the    *)
(* input extraction, in the same order.                                    *)
C21_WarningsAccumulate ==
    ((Applied \/ Verified) /\ ~IsNone(returned)) =>
        IsPrefix(Extraction.warnings, ResultingExtraction.warnings)

C21_Witness ==
    /\ Applied /\ ~IsNone(returned)
    /\ Extraction.warnings # << >>
    /\ Len(ResultingExtraction.warnings) > Len(Extraction.warnings)

(***************************************************************************)
(* C23: calls of the corrector in one run                                  *)
(***************************************************************************)
VerifyRan == vcall = "verify_extraction"
NeedsVerification == detect_suspicious_values(Extraction).needs_verification

ReceivedExtraction == Get(Get(received).extraction_result)

(* C24: after detect_suspicious_values, verify_extraction,                 *)
(* apply_corrections and _run_verification the ExtractionResult they       *)
(* received has the pads, warnings and overall confidence it had before    *)
(* the call.                                                               *)
C24_Immutable ==
    (vcall # "" /\ ~IsNone(received)) =>
        /\ ReceivedExtraction.pads = Extraction.pads
        /\ ReceivedExtraction.warnings = Extraction.warnings
        /\ ReceivedExtraction.overall_confidence = Extraction.overall_confidence

(***************************************************************************)
(* C25: the sanitized file name                                            *)
(***************************************************************************)
Sanitizing == ~IsNone(raw_name) /\ ~IsNone(safe_name)
NameGiven == Get(raw_name)
SafeName == Get(safe_name)

Replied(op) == ~IsNone(reply) /\ Get(reply).op = op
LastReply == Get(reply)
Body == Get(Get(reply).body)
TheJob == jobs["job-1"]
Exists == "job-1" \in DOMAIN jobs

(***************************************************************************)
(* C22: verdicts of the corrector in an extract request                    *)
(***************************************************************************)
(* C22: an extract request with verify enabled, in which the corrector     *)
(* returned a parsed verdict, ends with a successful extraction response   *)
(* that carries a footprint, and the extraction is stored.                 *)
C22_Absorbed ==
    (Replied("extract") /\ LastReply.corrector = "verdict") =>
        /\ LastReply.status = 200
        /\ Body.success
        /\ ~IsNone(Body.footprint)
        /\ Exists /\ TheJob.extracted

(***************************************************************************)
(* C26: the order of the workflow                                          *)
(***************************************************************************)
(* A step in which the request `op` was answered for the job.              *)
Answered(op) ==
    /\ ~IsNone(reply') /\ Get(reply').op = op /\ Get(reply').status # 404
    /\ "job-1" \in DOMAIN jobs /\ "job-1" \in DOMAIN jobs'

ExtractedWithSuccess(job) ==
    /\ job.extracted /\ ~IsNone(job.extraction_response)
    /\ Get(job.extraction_response).success

(* C26: a confirm request is rejected with 400 and changes nothing on the  *)
(* job, so that an unconfirmed job stays unconfirmed, unless an extraction *)
(* has been performed and has succeeded, and then it confirms the job with *)
(* the extraction's footprint; a generate request is rejected with 400     *)
(* unless the job is confirmed and has a confirmed footprint.              *)
C26_WorkflowOrder ==
    [][/\ Answered("confirm") =>
             IF ExtractedWithSuccess(jobs["job-1"])
             THEN /\ Get(reply').status = 200
                  /\ jobs'["job-1"].confirmed
                  /\ jobs'["job-1"].confirmed_footprint =
                        Get(jobs["job-1"].extraction_response).footprint
             ELSE /\ Get(reply').status = 400
                  /\ jobs'["job-1"] = jobs["job-1"]
       /\ Answered("generate") =>
             /\ Get(reply').status =
                   IF jobs["job-1"].confirmed /\ ~IsNone(jobs["job-1"].confirmed_footprint)
                   THEN 200 ELSE 400
             /\ jobs'["job-1"] = jobs["job-1"]]_vars

C26_Witness ==
    /\ Replied("confirm") /\ LastReply.status = 400
    /\ Exists /\ TheJob.extracted /\ ~TheJob.confirmed
    /\ ~Get(TheJob.extraction_response).success

(***************************************************************************)
(* C27: the cached extraction                                              *)
(***************************************************************************)
Stored(job) == job.extracted /\ ~IsNone(job.extraction_response)
ImagesAdded == Len(jobs'["job-1"].images) > Len(jobs["job-1"].images)

(* C27: an extract request on a job with a stored extraction returns the   *)
(* response built from the stored extraction, the one returned when it     *)
(* was stored, without invoking the extractor and whatever its             *)
(* parameters; a request that adds images leaves the job not extracted     *)
(* and without a stored response, and the next extract request invokes     *)
(* the extractor again; nothing else removes the stored extraction of a    *)
(* job.                                                                    *)
C27_Cache ==
    [][/\ Answered("extract") =>
             IF Stored(jobs["job-1"])
             THEN /\ ~Get(reply').invoked
                  /\ Get(reply').status = 200
                  /\ Get(reply').body =
                        Some(_build_extract_response(
                               "job-1", Get(jobs["job-1"].extraction_response)))
                  /\ jobs'["job-1"] = jobs["job-1"]
             ELSE /\ api_key => Get(reply').invoked
                  /\ Stored(jobs'["job-1"]) =>
                        Get(reply').body =
                           Some(_build_extract_response(
                                  "job-1", Get(jobs'["job-1"].extraction_response)))
       /\ (Answered("add_images") /\ ImagesAdded) =>
             /\ ~jobs'["job-1"].extracted
             /\ IsNone(jobs'["job-1"].extraction_response)
       /\ ("job-1" \in DOMAIN jobs /\ "job-1" \in DOMAIN jobs' /\ Stored(jobs["job-1"])
           /\ ~ImagesAdded) =>
             /\ jobs'["job-1"].extracted
             /\ jobs'["job-1"].extraction_response = jobs["job-1"].extraction_response]_vars

C27_Witness ==
    /\ Replied("extract") /\ ~LastReply.invoked /\ LastReply.status = 200
    /\ Exists /\ TheJob.extracted /\ Body.success
    /\ Len(TheJob.images) = MaxImages

(***************************************************************************)
(* C28: a confirmation stays                                               *)
(***************************************************************************)
JobKept == "job-1" \in DOMAIN jobs /\ "job-1" \in DOMAIN jobs'
Confirms == Answered("confirm") /\ Get(reply').status = 200

(* C28: while a confirmed job is in the store, every operation leaves it   *)
(* confirmed with the footprint of the last successful confirm request (a  *)
(* successful confirm request sets the footprint of the stored             *)
(* extraction), and a generate request on it succeeds with the confirmed   *)
(* footprint.                                                              *)
C28_ConfirmedStays ==
    [][(JobKept /\ jobs["job-1"].confirmed) =>
          /\ jobs'["job-1"].confirmed
          /\ ~IsNone(jobs'["job-1"].confirmed_footprint)
          /\ jobs'["job-1"].confirmed_footprint =
                IF Confirms THEN Get(jobs["job-1"].extraction_response).footprint
                ELSE jobs["job-1"].confirmed_footprint
          /\ Answered("generate") =>
                /\ Get(reply').status = 200
                /\ Get(Get(reply').body).footprint =
                      Get(jobs["job-1"].confirmed_footprint)]_vars

(* A generate request succeeds after images were added to the confirmed    *)
(* job and a new extraction failed.                                        *)
C28_Witness ==
    /\ Replied("generate") /\ LastReply.status = 200
    /\ Exists /\ TheJob.confirmed
    /\ TheJob.extracted /\ ~Get(TheJob.extraction_response).success

(***************************************************************************)
(* C29: failed extractions                                                 *)
(***************************************************************************)
StoredFailure(job) == Stored(job) /\ ~Get(job.extraction_response).success

(* C29: an extract request that runs the extraction and catches no         *)
(* exception stores the extractor's response, a response with success =    *)
(* false included, and marks the job extracted; one that catches an        *)
(* exception answers success = false, stores nothing and leaves the job    *)
(* not extracted.  While a failure is stored, an extract request returns   *)
(* that failure without invoking the extractor and a confirm request is    *)
(* rejected with 400; the failure stays stored until images are added.     *)
C29_FailedExtraction ==
    [][/\ (Answered("extract") /\ ~Stored(jobs["job-1"])) =>
             IF Get(reply').raised # ""
             THEN /\ jobs'["job-1"] = jobs["job-1"]
                  /\ ~jobs'["job-1"].extracted
                  /\ ~Get(Get(reply').body).success
             ELSE /\ Stored(jobs'["job-1"])
                  /\ Get(reply').invoked
                  /\ Get(reply').body =
                        Some(_build_extract_response(
                               "job-1", Get(jobs'["job-1"].extraction_response)))
       /\ (Answered("extract") /\ StoredFailure(jobs["job-1"])) =>
             /\ ~Get(reply').invoked
             /\ ~Get(Get(reply').body).success
             /\ Get(Get(reply').body).error = Get(jobs["job-1"].extraction_response).error
             /\ jobs'["job-1"] = jobs["job-1"]
       /\ (Answered("confirm") /\ StoredFailure(jobs["job-1"])) =>
             /\ Get(reply').status = 400
             /\ jobs'["job-1"] = jobs["job-1"]
       /\ (JobKept /\ StoredFailure(jobs["job-1"]) /\ ~ImagesAdded) =>
             StoredFailure(jobs'["job-1"])]_vars

C29_Witness ==
    /\ Replied("extract") /\ ~LastReply.invoked /\ LastReply.raised = ""
    /\ Exists /\ StoredFailure(TheJob)
    /\ ~Body.success /\ Body.error = Get(TheJob.extraction_response).error

(***************************************************************************)
(* C30: rejected uploads                                                   *)
(***************************************************************************)
(* C30: an upload request rejected with 400 adds no job, and an add-images *)
(* request rejected with 400 leaves the images and the stored extraction   *)
(* of the job as they were, wherever the rejected file stands in the       *)
(* request.                                                                *)
C30_RejectedHasNoEffect ==
    [][/\ (~IsNone(reply') /\ Get(reply').op = "upload" /\ Get(reply').status = 400) =>
             jobs' = jobs
       /\ (Answered("add_images") /\ Get(reply').status = 400) =>
             /\ jobs'["job-1"].images = jobs["job-1"].images
             /\ jobs'["job-1"].extracted = jobs["job-1"].extracted
             /\ jobs'["job-1"].extraction_response = jobs["job-1"].extraction_response]_vars

====
